---- MODULE Spec2Model ----
(***************************************************************************)
(* Model of the alpha-border dilation of src/dilate.rs: dilate (one pass), *)
(* copy_color_values (the alpha-preserving merge) and dilate_image_sub /   *)
(* dilate_image (extract, 1 + 2*5 passes, merge, write back).              *)
(*                                                                         *)
(* Buffers are functions from the byte offsets 0..len-1 to bytes 0..255,   *)
(* so the index arithmetic is the source's.                                *)
(***************************************************************************)
EXTENDS Integers, Sequences, FiniteSets, TLC

\* ---------------------------------------------------------------- bounds
\* Largest buffer width, height and pixel count of the inputs explored.
MaxW == 4
MaxH == 2
MaxPixels == 4
\* Largest pixel count of the inputs whose recolourings are all run.
MaxRecolourPixels == 3
\* Pixels of a buffer that is dilated several times, and the calls made.
MaxRetryPixels == 2
MaxCalls == 3
\* Length plus thickness minus one of the bands whose far end the dilation
\* does not reach.
MaxRun == 13
\* Skins of one upload.
MaxSkins == 2
\* Reactions and commands (/upload_finish, /upload_cancel) the bot receives,
\* and how many of them when the removal of the sessions is checked.
MaxEvents == 3
MaxFairEvents == 2
\* The same when a user without the role takes part.
MaxRoleEvents == 2

\* ------------------------------------------------------ program constants
TW_DILATE_ALPHA_THRESHOLD == 10
\* A loop of one round trip less.
RoundsShort == 5 - 1
\* for _i in 0..5
Rounds == 5

BppVals == {3, 4}

\* The pixels inputs are built from, as <<c0, c1, c2, alpha>>; a bpp = 3
\* pixel takes c0, c1 and the alpha-like byte.
OpaqueRed   == <<255, 0, 0, 255>>
OpaqueGreen == <<10, 200, 30, 11>>
ClearBlack  == <<0, 0, 0, 0>>
ClearInk    == <<40, 50, 60, 0>>
FaintInk    == <<70, 80, 90, 10>>
DimInk      == <<5, 6, 7, 1>>

Palette == {OpaqueRed, OpaqueGreen, ClearBlack, ClearInk, FaintInk}
SubPalette == {OpaqueRed, ClearInk, DimInk}
RecolourPalette == {OpaqueRed, ClearBlack, ClearInk, FaintInk}
RetryPalette == {OpaqueRed, ClearInk}

\* The users of the bot.
Users == {1, 2}

\* Everyone who can send commands, press buttons and react: the users above
\* hold the role of ROLE_ID, user 3 does not.
Everyone == {1, 2, 3}

\* A lock nobody holds; a held one is <<holder, user>>.
Free == <<"free">>

\* The two images of a skin (file_256x128, file_512x256) and all images of
\* an upload.
Kinds == {"file_256x128", "file_512x256"}
Images == (1..MaxSkins) \X Kinds

VARIABLES
    img_buff,               \* the caller's buffer (pixel_buffer_data)
    img_in,                 \* img_buff as it was passed in
    w, h, bpp,              \* the buffer's row width, height, bytes per pixel
    x, y, sw, sh,           \* the rectangle
    buffer_data1,
    buffer_data2,
    buffer_data_original,
    passes,                 \* calls of dilate made so far
    pc,
    calls,                  \* calls of dilate_image_sub started so far
    first_in,               \* the buffer passed to the first call
    first_out,              \* what the first call left in it (<<>> before)
    others,                 \* calls made so far on a buffer other than first_in
    state,                  \* item.state of the user's upload
    snapshot,               \* item.skins_to_upload when upload_finish cloned it
    skins_to_upload,        \* the clone, as far as it is not drained yet
    skin_to_upload,         \* the skin of the current iteration (<<>> outside)
    kind,                   \* which of its two images the iteration is at
    img,                    \* the closure's buffer (<<>> outside the closure)
    file,                   \* content of the file skin_name + ".png" (<<>>: none)
    sent,                   \* contents the database has received
    trace,                  \* per image, what has been done with it, in order
    errors,                 \* length of the errors vector
    refused,                \* a second upload_finish was turned away
    upc,                    \* position of upload_finish
    data_lock,              \* who holds the write lock of ctx.data (Free: nobody)
    upload_lock,            \* who holds SkinUploads.upload_lock
    uploads,                \* SkinUploads.uploads: user -> SkinUploadItem
    task,                   \* per user, where the task of the /upload command is
    was_notified,           \* per user, what the select! of the task returned
    drained,                \* per user, the drained messages not processed yet
    fin,                    \* per user, where the task of upload_finish is
    taken,                  \* per user, the clone upload_finish took (<<>>: none)
    posted,                 \* <<user, skin name>> posted to the database
    dilate_calls,           \* arguments of the calls of dilate_image made
    told,                   \* per user, the answers given to the user
    reacted,                \* <<user, message>>: reacted to and not un-reacted
    missed,                 \* per user, reacted and unprocessed when the clone was taken
    events                  \* reactions and commands still to come

\* What the caller keeps between calls.
caller == <<calls, first_in, first_out, others>>

\* What one call of dilate_image_sub works on.
dilation == <<img_buff, img_in, w, h, bpp, x, y, sw, sh,
              buffer_data1, buffer_data2, buffer_data_original, passes, pc>>

\* What upload_finish works on.
upload == <<state, snapshot, skins_to_upload, skin_to_upload, kind, img, file,
            sent, trace, errors, refused, upc>>

\* The sessions of the bot: what the handlers of main.rs share.
session == <<data_lock, upload_lock, uploads, task, was_notified, drained, fin,
             taken, posted, dilate_calls, told, reacted, missed, events>>

vars == <<dilation, caller, upload, session>>

\* ---------------------------------------------------------------- helpers
\* vec![0; n]
ZeroVec(n) == [j \in 0..(n - 1) |-> 0]

\* dst[at..at+n].copy_from_slice(&src[from..from+n])
CopySlice(dst, at, src, from, n) ==
    [j \in DOMAIN dst |-> IF j >= at /\ j < at + n THEN src[from + (j - at)] ELSE dst[j]]

\* The buffer f itself. A function expression is evaluated anew at each
\* application; comparing it tabulates it once, which keeps a chain of
\* passes linear in its length.
Tabulated(f) == IF f = f THEN f ELSE f

\* A coordinate that leaves the range on one side and enters it on the other.
ClampWraps(v, lo, hi) == lo + ((v - lo) % (hi - lo + 1))

\* i64::clamp
Clamp(v, lo, hi) == IF v < lo THEN lo ELSE IF v > hi THEN hi ELSE v

dirs_x_no_west == <<0, 1, 1, 0>>

dirs_x == <<0, -1, 1, 0>>

dirs_y_no_north == <<1, 0, 0, 1>>

dirs_y == <<-1, 0, 0, 1>>

\* ------------------------------------------------------------ dilate pass
\* Offset of the c-th neighbour (c in 0..3) of pixel (px, py): k of the loop.
NeighbourOffset(dw, dh, dbpp, px, py, c) ==
    LET ix == Clamp(px + dirs_x[c + 1], 0, dw - 1)
        iy == Clamp(py + dirs_y[c + 1], 0, dh - 1)
    IN  iy * dw * dbpp + ix * dbpp

\* Whether the loop body runs for c: the loop breaks (line 46) at the first
\* opaque neighbour, so it runs for c only when no earlier one was opaque.
LoopReachesNoBreak(dw, dh, dbpp, src, px, py, thr, c) == TRUE

LoopReaches(dw, dh, dbpp, src, px, py, thr, c) ==
    \A c2 \in 0..(c - 1) :
        ~(src[NeighbourOffset(dw, dh, dbpp, px, py, c2) + (dbpp - 1)] > thr)

\* What iteration c adds to sums_of_opaque[p] (0 when it adds nothing).
Contribution(dw, dh, dbpp, src, px, py, thr, c, p) ==
    LET k == NeighbourOffset(dw, dh, dbpp, px, py, c)
    IN  IF LoopReaches(dw, dh, dbpp, src, px, py, thr, c) /\ src[k + (dbpp - 1)] > thr
        THEN src[k + p] ELSE 0

\* What iteration c adds to counter.
Counted(dw, dh, dbpp, src, px, py, thr, c) ==
    LET k == NeighbourOffset(dw, dh, dbpp, px, py, c)
    IN  IF LoopReaches(dw, dh, dbpp, src, px, py, thr, c) /\ src[k + (dbpp - 1)] > thr
        THEN 1 ELSE 0

\* sums_of_opaque[p] after the loop over c in 0..4.
SumsOfOpaque(dw, dh, dbpp, src, px, py, thr, p) ==
    Contribution(dw, dh, dbpp, src, px, py, thr, 0, p)
  + Contribution(dw, dh, dbpp, src, px, py, thr, 1, p)
  + Contribution(dw, dh, dbpp, src, px, py, thr, 2, p)
  + Contribution(dw, dh, dbpp, src, px, py, thr, 3, p)

Counter(dw, dh, dbpp, src, px, py, thr) ==
    Counted(dw, dh, dbpp, src, px, py, thr, 0)
  + Counted(dw, dh, dbpp, src, px, py, thr, 1)
  + Counted(dw, dh, dbpp, src, px, py, thr, 2)
  + Counted(dw, dh, dbpp, src, px, py, thr, 3)

\* dst[0..(bpp - 1)].fill(0): byte p of the cleared pixel.
ClearedByteKeep(copied, dbpp, p) == copied

ClearedByte(copied, dbpp, p) == IF p < dbpp - 1 THEN 0 ELSE copied

\* The test of line 26: the pixel is opaque and stays as copied.
KeepsSourceNever(alpha, thr) == FALSE

\* The test of line 26 with the threshold itself counted as opaque.
KeepsSourceAtThreshold(alpha, thr) == alpha >= thr

KeepsSource(alpha, thr) == alpha > thr

\* Byte p of the destination chunk of pixel i (the closure's dst[p]).
DilatePixelByte(dw, dh, dbpp, src, thr, i, p) ==
    LET px == i % dw
        py == i \div dw
        m == py * dw * dbpp + px * dbpp
        alpha_comp_index == dbpp - 1
        counter == Counter(dw, dh, dbpp, src, px, py, thr)
    IN  IF KeepsSource(src[m + alpha_comp_index], thr)
        THEN src[m + p]
        ELSE IF counter > 0
             THEN IF p < dbpp - 1
                  THEN (SumsOfOpaque(dw, dh, dbpp, src, px, py, thr, p) \div counter) % 256
                  ELSE 255
             ELSE ClearedByte(src[m + p], dbpp, p)

\* A traversal that stops one chunk early.
VisitsButLast(dw, dh, dbpp, n, j) ==
    (j \div dbpp) < dw * dh - 1 /\ (j \div dbpp) * dbpp + dbpp <= n

\* Whether byte j of a destination of n bytes is in a chunk the closure is
\* called on: chunks_exact_mut(bpp).enumerate().take(w * h) (lines 16-19)
\* visits the complete chunks with index below w * h.
Visits(dw, dh, dbpp, n, j) ==
    (j \div dbpp) < dw * dh /\ (j \div dbpp) * dbpp + dbpp <= n

\* dilate(w, h, bpp, src_buff, dest_buff, alpha_threshold): dest_buff after
\* the call.
dilate(dw, dh, dbpp, src, dest, thr) ==
    LET n == Cardinality(DOMAIN dest)
    IN  [j \in DOMAIN dest |->
            IF Visits(dw, dh, dbpp, n, j)
            THEN DilatePixelByte(dw, dh, dbpp, src, thr, j \div dbpp, j % dbpp)
            ELSE dest[j]]

\* ------------------------------------------------------------------ merge
\* Whether copy_color_values overwrites the colour of a pixel with this
\* alpha-like byte in the destination (line 67).
MergeTakesLow(alpha) == alpha <= TW_DILATE_ALPHA_THRESHOLD

MergeTakesNonzero(alpha) == alpha # 0

MergeTakes(alpha) == alpha = 0

\* The bytes of a pixel copy_color_values copies: dst[0..bpp - 1] (line 68).
MergeCopiesAlphaToo(dbpp, p) == p < dbpp

MergeCopies(dbpp, p) == p < dbpp - 1

\* copy_color_values(w, h, bpp, src_buffer, dest_buffer): dest_buffer after.
copy_color_values(dw, dh, dbpp, src, dest) ==
    LET nd == Cardinality(DOMAIN dest)
        ns == Cardinality(DOMAIN src)
    IN  [j \in DOMAIN dest |->
            LET i == j \div dbpp
                p == j % dbpp
            IN  IF /\ i < dw * dh
                   /\ i * dbpp + dbpp <= nd
                   /\ i * dbpp + dbpp <= ns
                   /\ MergeTakes(dest[i * dbpp + (dbpp - 1)])
                   /\ MergeCopies(dbpp, p)
                THEN src[j] ELSE dest[j]]

\* ----------------------------------------------------- region copy in/out
\* Offset in the caller's buffer of row r of the rectangle (line 93).
ExtractOffsetNoX(bw, dbpp, rx, ry, r) == ((ry + r) * bw * dbpp)

ExtractOffset(bw, dbpp, rx, ry, r) == ((ry + r) * bw * dbpp) + (rx * dbpp)

RECURSIVE ExtractRows(_, _, _, _, _, _, _, _)
\* for yh in 0..sh (lines 92-98): the scratch buffer after its first yh rows.
ExtractRows(orig, buf, bw, dbpp, rx, ry, rsw, yh) ==
    IF yh = 0 THEN orig
    ELSE LET r == yh - 1
             src_img_offset == ExtractOffset(bw, dbpp, rx, ry, r)
             dst_img_offset == r * rsw * dbpp
             copy_size == rsw * dbpp
         IN  CopySlice(ExtractRows(orig, buf, bw, dbpp, rx, ry, rsw, r),
                       dst_img_offset, buf, src_img_offset, copy_size)

\* The bounds test of the slice buf[from..from + n] (lines 96-97): the slice
\* expression panics when it does not hold.
SliceInBounds(buf, from, n) == from + n <= Cardinality(DOMAIN buf)

\* Every row slice the loop of lines 92-98 takes of the caller's buffer is
\* inside it.
RowsInBounds(buf, bw, dbpp, rx, ry, rsw, rsh) ==
    \A yh \in 0..(rsh - 1) :
        SliceInBounds(buf, ExtractOffset(bw, dbpp, rx, ry, yh), rsw * dbpp)

\* Offset in the caller's buffer of row r of the rectangle (line 137).
WriteOffsetNoX(bw, dbpp, rx, ry, r) == ((ry + r) * bw * dbpp)

WriteOffset(bw, dbpp, rx, ry, r) == ((ry + r) * bw * dbpp) + (rx * dbpp)

RECURSIVE WriteRows(_, _, _, _, _, _, _, _)
\* for yh in 0..sh (lines 136-142): the caller's buffer after its first yh rows.
WriteRows(buf, orig, bw, dbpp, rx, ry, rsw, yh) ==
    IF yh = 0 THEN buf
    ELSE LET r == yh - 1
             src_img_offset == WriteOffset(bw, dbpp, rx, ry, r)
             dst_img_offset == r * rsw * dbpp
             copy_size == rsw * dbpp
         IN  CopySlice(WriteRows(buf, orig, bw, dbpp, rx, ry, rsw, r),
                       src_img_offset, orig, dst_img_offset, copy_size)

\* ----------------------------------------------------------------- inputs
\* Byte p of a palette pixel at bpp bytes per pixel.
PixelByte(px, dbpp, p) == IF p = dbpp - 1 THEN px[4] ELSE px[p + 1]

\* The buffer of the pixels f[0], f[1], ... in row-major order.
BufferOf(f, dbpp) ==
    [j \in 0..(Cardinality(DOMAIN f) * dbpp - 1) |-> PixelByte(f[j \div dbpp], dbpp, j % dbpp)]

\* No user has given a command, and n reactions and commands are to come.
Idle(n) ==
    /\ data_lock = Free
    /\ upload_lock = Free
    /\ uploads = <<>>
    /\ task = [u \in Everyone |-> "none"]
    /\ was_notified = [u \in Everyone |-> FALSE]
    /\ drained = [u \in Everyone |-> <<>>]
    /\ fin = [u \in Everyone |-> "idle"]
    /\ taken = [u \in Everyone |-> <<>>]
    /\ posted = {}
    /\ dilate_calls = {}
    /\ told = [u \in Everyone |-> {}]
    /\ reacted = {}
    /\ missed = [u \in Everyone |-> {}]
    /\ events = n

NoSession == Idle(0)

\* No upload is going on.
NoUpload ==
    /\ state = "Collecting"
    /\ snapshot = <<>>
    /\ skins_to_upload = <<>>
    /\ skin_to_upload = <<>>
    /\ kind = "file_256x128"
    /\ img = <<>>
    /\ file = <<>>
    /\ sent = {}
    /\ trace = [im \in Images |-> <<>>]
    /\ errors = 0
    /\ refused = FALSE
    /\ upc = "idle"

Start(buf, ww, hh, b, xx, yy, sww, shh) ==
    /\ NoUpload
    /\ NoSession
    /\ img_buff = buf
    /\ img_in = buf
    /\ w = ww /\ h = hh /\ bpp = b
    /\ x = xx /\ y = yy /\ sw = sww /\ sh = shh
    /\ buffer_data1 = <<>>
    /\ buffer_data2 = <<>>
    /\ buffer_data_original = <<>>
    /\ passes = 0
    /\ pc = "alloc"
    /\ calls = 1
    /\ first_in = buf
    /\ first_out = <<>>
    /\ others = 0

\* dilate_image(img_buff, w, h, bpp) on every image of the bounds.
Init ==
    \E ww \in 1..MaxW, hh \in 1..MaxH, b \in BppVals :
        /\ ww * hh <= MaxPixels
        /\ \E f \in [0..(ww * hh - 1) -> Palette] :
               Start(BufferOf(f, b), ww, hh, b, 0, 0, ww, hh)

\* dilate_image on the images of one opaque colour, whose transparent pixels
\* come in two colours.
InitRecolour ==
    \E ww \in 1..MaxW, hh \in 1..MaxH, b \in BppVals :
        /\ ww * hh <= MaxRecolourPixels
        /\ \E f \in [0..(ww * hh - 1) -> RecolourPalette] :
               Start(BufferOf(f, b), ww, hh, b, 0, 0, ww, hh)

\* dilate_image_sub(img_buff, w, h, bpp, x, y, sw, sh) with every rectangle
\* inside the buffer.
InitSub ==
    \E ww \in 1..MaxW, hh \in 1..MaxH, b \in BppVals :
        /\ ww * hh <= MaxPixels
        /\ \E f \in [0..(ww * hh - 1) -> SubPalette] :
           \E xx \in 0..(ww - 1), yy \in 0..(hh - 1) :
           \E sww \in 1..(ww - xx), shh \in 1..(hh - yy) :
               Start(BufferOf(f, b), ww, hh, b, xx, yy, sww, shh)

\* dilate_image on the small images that are dilated again and again.
InitRetry ==
    \E ww \in 1..MaxW, hh \in 1..MaxH, b \in BppVals :
        /\ ww * hh <= MaxRetryPixels
        /\ \E f \in [0..(ww * hh - 1) -> RetryPalette] :
               Start(BufferOf(f, b), ww, hh, b, 0, 0, ww, hh)

\* dilate_image on the long bands, one or two pixels thick, lying or upright:
\* all pixels fully transparent and coloured but at most one red pixel
\* anywhere and one green pixel in the first or the last place.
InitRadius ==
    \E t \in 1..2, n \in 1..MaxRun, b \in BppVals, upright \in BOOLEAN :
        /\ n + t - 1 <= MaxRun
        /\ \E a \in 0..(n * t), c \in {0, n * t - 1, n * t} :
               LET f == [i \in 0..(n * t - 1) |->
                            IF i = c THEN OpaqueGreen
                            ELSE IF i = a THEN OpaqueRed ELSE ClearInk]
               IN  IF upright
                   THEN Start(BufferOf(f, b), t, n, b, 0, 0, t, n)
                   ELSE Start(BufferOf(f, b), n, t, b, 0, 0, n, t)

\* dilate_image on the small images of all pixel kinds, and on the rows up to
\* MaxRun long that begin or end with a red pixel and are transparent and
\* coloured elsewhere; its result is dilated once more.
InitTwice ==
    \/ \E ww \in 1..MaxW, hh \in 1..MaxH, b \in BppVals :
           /\ ww * hh <= MaxRecolourPixels
           /\ \E f \in [0..(ww * hh - 1) -> Palette] :
                  Start(BufferOf(f, b), ww, hh, b, 0, 0, ww, hh)
    \/ \E n \in (MaxRecolourPixels + 1)..MaxRun, b \in BppVals :
       \E a \in {0, n - 1} :
           Start(BufferOf([i \in 0..(n - 1) |-> IF i = a THEN OpaqueRed ELSE ClearInk], b),
                 n, 1, b, 0, 0, n, 1)

\* dilate_image_sub with the rectangles that are not inside the buffer: the
\* rectangle ends right of the last column, below the last row, or both.
InitOob ==
    \E ww \in 1..MaxW, hh \in 1..MaxH, b \in BppVals :
        /\ ww * hh <= MaxPixels
        /\ \E f \in [0..(ww * hh - 1) -> RetryPalette] :
           \E xx \in 0..ww, yy \in 0..hh :
           \E sww \in 1..(ww + 1), shh \in 1..(hh + 1) :
               /\ xx + sww > ww \/ yy + shh > hh
               /\ Start(BufferOf(f, b), ww, hh, b, xx, yy, sww, shh)

\* ---------------------------------------------------------------- actions
\* Lines 83-98 as they would be if the scratch copy outlived the call: a copy
\* of the right size is taken for the rectangle without reading the buffer.
ExtractRegionCached ==
    /\ pc = "alloc"
    /\ RowsInBounds(img_buff, w, bpp, x, y, sw, sh)
    /\ buffer_data1' = ZeroVec(sw * sh * bpp)
    /\ buffer_data2' = ZeroVec(sw * sh * bpp)
    /\ buffer_data_original' =
           IF DOMAIN buffer_data_original = 0..(sw * sh * bpp - 1)
           THEN buffer_data_original
           ELSE ExtractRows(ZeroVec(sw * sh * bpp), img_buff, w, bpp, x, y, sw, sh)
    /\ pc' = "first"
    /\ UNCHANGED <<img_buff, img_in, w, h, bpp, x, y, sw, sh, passes, caller, upload, session>>

\* Lines 83-98: allocate the three scratch buffers, copy the rectangle out.
ExtractRegion ==
    /\ pc = "alloc"
    /\ RowsInBounds(img_buff, w, bpp, x, y, sw, sh)
    /\ buffer_data1' = ZeroVec(sw * sh * bpp)
    /\ buffer_data2' = ZeroVec(sw * sh * bpp)
    /\ buffer_data_original' =
           ExtractRows(ZeroVec(sw * sh * bpp), img_buff, w, bpp, x, y, sw, sh)
    /\ pc' = "first"
    /\ UNCHANGED <<img_buff, img_in, w, h, bpp, x, y, sw, sh, passes, caller, upload, session>>

\* Lines 100-107: original -> buffer_data1.
FirstPass ==
    /\ pc = "first"
    /\ buffer_data1' = dilate(sw, sh, bpp, buffer_data_original, buffer_data1,
                              TW_DILATE_ALPHA_THRESHOLD)
    /\ passes' = 1
    /\ pc' = IF Rounds > 0 THEN "ping" ELSE "merge"
    /\ UNCHANGED <<img_buff, img_in, w, h, bpp, x, y, sw, sh,
                   buffer_data2, buffer_data_original, caller, upload, session>>

\* Lines 110-117: buffer_data1 -> buffer_data2.
PingPass ==
    /\ pc = "ping"
    /\ buffer_data2' = dilate(sw, sh, bpp, buffer_data1, buffer_data2,
                              TW_DILATE_ALPHA_THRESHOLD)
    /\ passes' = passes + 1
    /\ pc' = "pong"
    /\ UNCHANGED <<img_buff, img_in, w, h, bpp, x, y, sw, sh,
                   buffer_data1, buffer_data_original, caller, upload, session>>

\* Lines 118-125: buffer_data2 -> buffer_data1, then the loop test.
PongPass ==
    /\ pc = "pong"
    /\ buffer_data1' = dilate(sw, sh, bpp, buffer_data2, buffer_data1,
                              TW_DILATE_ALPHA_THRESHOLD)
    /\ passes' = passes + 1
    /\ pc' = IF passes + 1 < 1 + 2 * Rounds THEN "ping" ELSE "merge"
    /\ UNCHANGED <<img_buff, img_in, w, h, bpp, x, y, sw, sh,
                   buffer_data2, buffer_data_original, caller, upload, session>>

\* Lines 128-134: merge buffer_data1 into the extracted original.
Merge ==
    /\ pc = "merge"
    /\ buffer_data_original' =
           copy_color_values(sw, sh, bpp, buffer_data1, buffer_data_original)
    /\ pc' = "writeback"
    /\ UNCHANGED <<img_buff, img_in, w, h, bpp, x, y, sw, sh,
                   buffer_data1, buffer_data2, passes, caller, upload, session>>

\* Lines 136-142: copy the merged rectangle back into the caller's buffer.
WriteBack ==
    /\ pc = "writeback"
    /\ img_buff' = WriteRows(img_buff, buffer_data_original, w, bpp, x, y, sw, sh)
    /\ pc' = "done"
    /\ UNCHANGED <<img_in, w, h, bpp, x, y, sw, sh,
                   buffer_data1, buffer_data2, buffer_data_original, passes, caller, upload, session>>

Next ==
    \/ ExtractRegion
    \/ FirstPass
    \/ PingPass
    \/ PongPass
    \/ Merge
    \/ WriteBack

\* The caller of main.rs lines 192 and 227 between two calls: the call has
\* returned, and dilate_image is called on another buffer of the same shape,
\* equal to the first one or not.  What the returned call left in its scratch
\* vectors stays where it is (the next call allocates its own, lines 83-88).
CallAgain ==
    /\ pc = "done"
    /\ calls < MaxCalls
    /\ \E f \in [0..(w * h - 1) -> RetryPalette] :
           /\ img_buff' = BufferOf(f, bpp)
           /\ img_in' = BufferOf(f, bpp)
           /\ others' = IF BufferOf(f, bpp) = first_in THEN others ELSE others + 1
    /\ first_out' = IF calls = 1 THEN img_buff ELSE first_out
    /\ calls' = calls + 1
    /\ passes' = 0
    /\ pc' = "alloc"
    /\ UNCHANGED <<w, h, bpp, x, y, sw, sh, first_in,
                   buffer_data1, buffer_data2, buffer_data_original, upload, session>>

\* The caller applies dilate_image to the buffer the first call returned.
DilateAgain ==
    /\ pc = "done"
    /\ calls = 1
    /\ img_in' = img_buff
    /\ first_out' = img_buff
    /\ calls' = 2
    /\ passes' = 0
    /\ pc' = "alloc"
    /\ UNCHANGED <<img_buff, w, h, bpp, x, y, sw, sh, first_in, others,
                   buffer_data1, buffer_data2, buffer_data_original, upload, session>>

NextTwice ==
    \/ Next
    \/ DilateAgain

NextRetry ==
    \/ Next
    \/ CallAgain

\* Lines 92-98 when a row slice is not inside the caller's buffer: the slice
\* expression of line 97 panics.  The rows before it were copied into the
\* scratch vector only, which the unwinding drops.
ExtractPanics ==
    /\ pc = "alloc"
    /\ ~RowsInBounds(img_buff, w, bpp, x, y, sw, sh)
    /\ pc' = "panic"
    /\ UNCHANGED <<img_buff, img_in, w, h, bpp, x, y, sw, sh,
                   buffer_data1, buffer_data2, buffer_data_original, passes, caller, upload, session>>

NextOob ==
    \/ Next
    \/ ExtractPanics

Spec == Init /\ [][Next]_vars

SpecOob == InitOob /\ [][NextOob]_vars

SpecRadius == InitRadius /\ [][Next]_vars

SpecTwice == InitTwice /\ [][NextTwice]_vars

SpecRetry == InitRetry /\ [][NextRetry]_vars

SpecSub == InitSub /\ [][Next]_vars

SpecRecolour == InitRecolour /\ [][Next]_vars

\* ------------------------------------------------------- upload_finish
\* main.rs lines 120-327.  An image is known by the number of its skin and its
\* kind; a buffer, the PNG file and a transmitted body are known by the image
\* they hold and the number of times dilate_image ran on that buffer.

\* No call of dilate_image_sub is looked into.
NoDilation ==
    /\ img_buff = <<>> /\ img_in = <<>>
    /\ w = 0 /\ h = 0 /\ bpp = 4
    /\ x = 0 /\ y = 0 /\ sw = 0 /\ sh = 0
    /\ buffer_data1 = <<>> /\ buffer_data2 = <<>> /\ buffer_data_original = <<>>
    /\ passes = 0
    /\ pc = "none"
    /\ calls = 0 /\ first_in = <<>> /\ first_out = <<>> /\ others = 0

\* The user has collected up to MaxSkins skins; each of the two images of a
\* skin is empty (FALSE) or not.
InitUpload ==
    /\ NoDilation
    /\ NoSession
    /\ \E n \in 0..MaxSkins :
       \E item \in [1..n -> [Kinds -> BOOLEAN]] :
           /\ snapshot = item
           /\ state = "Collecting"
           /\ skins_to_upload = <<>>
           /\ skin_to_upload = <<>>
           /\ kind = "file_256x128"
           /\ img = <<>>
           /\ file = <<>>
           /\ sent = {}
           /\ trace = [im \in Images |-> <<>>]
           /\ errors = 0
           /\ refused = FALSE
           /\ upc = "idle"

\* The image the iteration is at.
Current == <<skin_to_upload.name, kind>>

Log(event) == trace' = [trace EXCEPT ![Current] = Append(@, event)]

\* Lines 141-150: the state is Collecting; it becomes Uploading and the skins
\* are cloned.
UploadFinish ==
    /\ upc = "idle"
    /\ state = "Collecting"
    /\ state' = "Uploading"
    /\ skins_to_upload' = [s \in DOMAIN snapshot |-> [name |-> s, files |-> snapshot[s]]]
    /\ upc' = "drain"
    /\ UNCHANGED <<snapshot, skin_to_upload, kind, img, file, sent, trace, errors,
                   refused, dilation, caller, session>>

\* Lines 141 and 317-325: another upload_finish of the user finds the state
\* Uploading and only answers.
UploadFinishRefused ==
    /\ state # "Collecting"
    /\ ~refused
    /\ refused' = TRUE
    /\ UNCHANGED <<state, snapshot, skins_to_upload, skin_to_upload, kind, img, file,
                   sent, trace, errors, upc, dilation, caller, session>>

\* Line 166: drain() hands out the next skin.
TakeSkin ==
    /\ upc = "drain"
    /\ skins_to_upload # <<>>
    /\ skin_to_upload' = Head(skins_to_upload)
    /\ skins_to_upload' = Tail(skins_to_upload)
    /\ kind' = "file_256x128"
    /\ upc' = "check"
    /\ UNCHANGED <<state, snapshot, img, file, sent, trace, errors, refused,
                   dilation, caller, session>>

\* Lines 183 and 219 for an empty image: nothing is done with it.  After the
\* first image comes the second, after the second the next skin.
SkipImage ==
    /\ upc = "check"
    /\ ~skin_to_upload.files[kind]
    /\ IF kind = "file_256x128"
       THEN kind' = "file_512x256" /\ upc' = "check"
       ELSE kind' = kind /\ upc' = "drain"
    /\ UNCHANGED <<state, snapshot, skins_to_upload, skin_to_upload, img, file, sent,
                   trace, errors, refused, dilation, caller, session>>

\* Lines 183-191 and 219-226: the image is not empty; the closure clones it.
CloneImage ==
    /\ upc = "check"
    /\ skin_to_upload.files[kind]
    /\ img' = [of |-> Current, dilated |-> 0]
    /\ upc' = "dilate"
    /\ UNCHANGED <<state, snapshot, skins_to_upload, skin_to_upload, kind, file, sent,
                   trace, errors, refused, dilation, caller, session>>

\* The closure without the call of lines 192 and 227.
DilateImageSkipped ==
    /\ upc = "dilate"
    /\ upc' = "save"
    /\ UNCHANGED <<state, snapshot, skins_to_upload, skin_to_upload, kind, img, file,
                   sent, trace, errors, refused, dilation, caller, session>>

\* Lines 192 and 227: dilate_image(&mut img, ...).
DilateImage ==
    /\ upc = "dilate"
    /\ img' = [img EXCEPT !.dilated = @ + 1]
    /\ Log("dilate")
    /\ upc' = "save"
    /\ UNCHANGED <<state, snapshot, skins_to_upload, skin_to_upload, kind, file, sent,
                   errors, refused, dilation, caller, session>>

\* Lines 193-200 and 228-235: save_buffer_with_format encodes img as PNG into
\* the file skin_name + ".png".
SaveImage ==
    /\ upc = "save"
    /\ file' = img
    /\ Log("encode")
    /\ upc' = "post"
    /\ UNCHANGED <<state, snapshot, skins_to_upload, skin_to_upload, kind, img, sent,
                   errors, refused, dilation, caller, session>>

\* Lines 202-211 and 237-246: the form takes the file and is posted.  The
\* request arrives, or send() returns an error, which is pushed to errors.
PostImage ==
    /\ upc = "post"
    /\ \/ sent' = sent \cup {file} /\ errors' = errors
       \/ sent' = sent /\ errors' = errors + 1
    /\ Log("post")
    /\ img' = <<>>
    /\ upc' = "remove"
    /\ UNCHANGED <<state, snapshot, skins_to_upload, skin_to_upload, kind, file,
                   refused, dilation, caller, session>>

\* Lines 214-216 and 250-252: remove_file(skin_name + ".png").
RemoveFile ==
    /\ upc = "remove"
    /\ file' = <<>>
    /\ IF kind = "file_256x128"
       THEN kind' = "file_512x256" /\ upc' = "check"
       ELSE kind' = kind /\ upc' = "drain"
    /\ UNCHANGED <<state, snapshot, skins_to_upload, skin_to_upload, img, sent, trace,
                   errors, refused, dilation, caller, session>>

\* The unwrap() of lines 201, 170 (called at 202), 212 and 216, and of their
\* twins for the second image: saving, opening or removing the file failed,
\* and upload_finish ends in a panic where it is.
Unwinds ==
    /\ upc \in {"save", "post", "remove"}
    /\ upc' = "panicked"
    /\ UNCHANGED <<state, snapshot, skins_to_upload, skin_to_upload, kind, img, file,
                   sent, trace, errors, refused, dilation, caller, session>>

\* Lines 166 and 285-316: the loop is over; the messages are sent.
FinishUpload ==
    /\ upc = "drain"
    /\ skins_to_upload = <<>>
    /\ skin_to_upload' = <<>>
    /\ upc' = "done"
    /\ UNCHANGED <<state, snapshot, skins_to_upload, kind, img, file, sent, trace,
                   errors, refused, dilation, caller, session>>

NextUpload ==
    \/ UploadFinish
    \/ UploadFinishRefused
    \/ TakeSkin
    \/ SkipImage
    \/ CloneImage
    \/ DilateImage
    \/ SaveImage
    \/ PostImage
    \/ RemoveFile
    \/ Unwinds
    \/ FinishUpload

SpecUpload == InitUpload /\ [][NextUpload]_vars

\* ------------------------------------------------------------- sessions
\* main.rs lines 82-118 (upload_cancel), 120-337 (upload_finish), 341-796
\* (interaction_create) and 800-903 (reaction_add, reaction_remove).  Every
\* user gives the /upload command at most once; upload_finish, upload_cancel
\* and reactions come at any time, as long as events are left.  The select!
\* of the loop may take the sleep branch with a permit stored: both branches
\* can be ready at one poll.  A handler
\* that takes the write lock of ctx.data and gives it back without another
\* handler being able to see a state in between is one step.

\* The messages of the channel one can react to.  Their texts name the skins
\* "a", "a" and "b"; the first carries a 256x128 image, the second a 512x256
\* image only, the third a 512x256, a 256x128 and a 128x64 image.
Messages == {1, 2, 3}
SkinName(m) == IF m = 3 THEN "b" ELSE "a"
Attachments(m) ==
    CASE m = 1 -> << <<256, 128>> >>
      [] m = 2 -> << <<512, 256>> >>
      [] m = 3 -> << <<512, 256>>, <<256, 128>>, <<128, 64>> >>

\* img_rgba.to_vec() of an RGBA8 image of these dimensions: its length.
RgbaLen(dim) == dim[1] * dim[2] * 4

\* A test of the dimensions that lets every image through.
ValidDimensionsAny(dim) == TRUE

\* Lines 541-546: the dimensions are (256, 128) or (512, 256).
ValidDimensions(dim) == dim = <<256, 128>> \/ dim = <<512, 256>>

\* A map without the key k, and with the value v at k.
Without(f, k) == [n \in DOMAIN f \ {k} |-> f[n]]
With(f, k, v) == [n \in DOMAIN f \cup {k} |-> IF n = k THEN v ELSE f[n]]

\* The two databases a reaction can choose.
Databases == {"Normal", "Community"}

\* skins_try_upload is the sequence of its <<message, database>> entries: a
\* LinkedHashMap after insert(k, db) and after remove(k), and its keys.
KeyInserted(q, k, db) == Append(SelectSeq(q, LAMBDA e : e[1] # k), <<k, db>>)
KeyRemoved(q, k) == SelectSeq(q, LAMBDA e : e[1] # k)
Keys(q) == {q[i][1] : i \in DOMAIN q}

\* Lines 459-467: the item /upload inserts.  notify is TRUE when the Notify
\* holds a permit.
NewItem ==
    [notify |-> FALSE, skins_try_upload |-> <<>>, state |-> "Collecting",
     errors |-> {}, skins_to_upload |-> <<>>]

\* Lines 585-591: the entry inserted for a skin of a message.
NewSkin(db, m) ==
    [file_256x128 |-> 0, file_512x256 |-> 0, database |-> db, original_msg_id |-> m]

RECURSIVE TakeAttachments(_, _, _, _, _)
\* Lines 531-622: skins_to_upload and errors (as a pair) after the first k
\* attachments of message m, reacted to for the database db.
TakeAttachments(skins, errs, m, db, k) ==
    IF k = 0 THEN <<skins, errs>>
    ELSE LET before == TakeAttachments(skins, errs, m, db, k - 1)
             dim == Attachments(m)[k]
             name == SkinName(m)
             had == IF name \in DOMAIN before[1] THEN before[1][name]
                                                 ELSE NewSkin(db, m)
         IN  IF ValidDimensions(dim)
             THEN IF dim = <<256, 128>>
                  THEN <<With(before[1], name, [had EXCEPT !.file_256x128 = RgbaLen(dim)]),
                         before[2]>>
                  ELSE <<With(before[1], name, [had EXCEPT !.file_512x256 = RgbaLen(dim)]),
                         before[2]>>
             ELSE <<before[1], before[2] \cup {<<"no valid skin", m>>}>>

\* A check of the role that lets everyone through.
HasRoleAnyone(u) == TRUE

\* Lines 360-374: has_role(guild, ROLE_ID) of the user of a slash command.
HasRole(u) == u \in Users

InitSession == NoDilation /\ NoUpload /\ Idle(MaxEvents)

\* Lines 360-374 and 786-795: the role of the user of /upload is checked.
\* Lines 416-433: /upload reads uploads.is_empty() under the read lock.
UploadCommand(u) ==
    /\ task[u] = "none"
    /\ IF ~HasRole(u)
       THEN /\ told' = [told EXCEPT ![u] = @ \cup {"You don't have the required permissions"}]
            /\ task' = [task EXCEPT ![u] = "ended"]
       ELSE /\ data_lock = Free
            /\ IF DOMAIN uploads # {}
               THEN /\ told' = [told EXCEPT ![u] = @ \cup {"Someone is already uploading skins"}]
                    /\ task' = [task EXCEPT ![u] = "ended"]
               ELSE /\ told' = told
                    /\ task' = [task EXCEPT ![u] = "responding"]
    /\ UNCHANGED <<data_lock, upload_lock, uploads, was_notified, drained, fin, taken,
                   posted, dilate_calls, reacted, missed, events,
                   dilation, caller, upload>>

\* Lines 435-468: the response is created and the item inserted under the
\* write lock.
InsertSession(u) ==
    /\ task[u] = "responding"
    /\ data_lock = Free
    /\ uploads' = With(uploads, u, NewItem)
    /\ task' = [task EXCEPT ![u] = "waiting"]
    /\ UNCHANGED <<data_lock, upload_lock, was_notified, drained, fin, taken, posted,
                   dilate_calls, told, reacted, missed, events,
                   dilation, caller, upload>>

\* Lines 447-449: create_response failed; nothing is inserted.
ResponseFails(u) ==
    /\ task[u] = "responding"
    /\ task' = [task EXCEPT ![u] = "ended"]
    /\ UNCHANGED <<data_lock, upload_lock, uploads, was_notified, drained, fin, taken,
                   posted, dilate_calls, told, reacted, missed, events,
                   dilation, caller, upload>>

\* Lines 471-474: notified() takes the permit.
LoopNotified(u) ==
    /\ task[u] = "waiting"
    /\ uploads[u].notify
    /\ uploads' = [uploads EXCEPT ![u].notify = FALSE]
    /\ was_notified' = [was_notified EXCEPT ![u] = TRUE]
    /\ task' = [task EXCEPT ![u] = "woken"]
    /\ UNCHANGED <<data_lock, upload_lock, drained, fin, taken, posted, dilate_calls,
                   told, reacted, missed, events, dilation, caller, upload>>

\* The select! that never takes the sleep branch.
LoopNeverTimesOut(u) ==
    /\ FALSE
    /\ UNCHANGED vars

\* Lines 471-473: the sleep of 120 seconds is over first.
LoopTimesOut(u) ==
    /\ task[u] = "waiting"
    /\ was_notified' = [was_notified EXCEPT ![u] = FALSE]
    /\ task' = [task EXCEPT ![u] = "woken"]
    /\ UNCHANGED <<data_lock, upload_lock, uploads, drained, fin, taken, posted,
                   dilate_calls, told, reacted, missed, events,
                   dilation, caller, upload>>

\* Lines 476-490: notified and Collecting; the task keeps the write lock and
\* drains skins_try_upload.
LoopDrains(u) ==
    /\ task[u] = "woken"
    /\ data_lock = Free
    /\ was_notified[u]
    /\ uploads[u].state = "Collecting"
    /\ data_lock' = <<"task", u>>
    /\ drained' = [drained EXCEPT ![u] = uploads[u].skins_try_upload]
    /\ uploads' = [uploads EXCEPT ![u].skins_try_upload = <<>>]
    /\ task' = [task EXCEPT ![u] = "processing"]
    /\ UNCHANGED <<upload_lock, was_notified, fin, taken, posted, dilate_calls, told,
                   reacted, missed, events, dilation, caller, upload>>

\* Lines 491-622: the message is fetched and, unless a skin of its name is
\* there for the other database (lines 512-524), its attachments are taken;
\* or, lines 641-644, it is not found anymore.
LoopTakesFiles(u) ==
    /\ task[u] = "processing"
    /\ drained[u] # <<>>
    /\ LET m == Head(drained[u])[1]
           db == Head(drained[u])[2]
           skins == uploads[u].skins_to_upload
           got == TakeAttachments(skins, uploads[u].errors, m, db, Len(Attachments(m)))
       IN  \/ /\ IF SkinName(m) \in DOMAIN skins /\ skins[SkinName(m)].database # db
                 THEN uploads' = [uploads EXCEPT ![u].errors = @ \cup
                                     {<<"you changed the database upload type", m>>}]
                 ELSE uploads' = [uploads EXCEPT ![u].skins_to_upload = got[1],
                                                 ![u].errors = got[2]]
              /\ task' = [task EXCEPT ![u] = "checking"]
              /\ drained' = drained
           \/ /\ uploads' = [uploads EXCEPT ![u].errors = @ \cup {<<"not found", m>>}]
              /\ task' = task
              /\ drained' = [drained EXCEPT ![u] = Tail(@)]
    /\ UNCHANGED <<data_lock, upload_lock, was_notified, fin, taken, posted,
                   dilate_calls, told, reacted, missed, events,
                   dilation, caller, upload>>

\* The end of the iteration without lines 629-638.
LoopChecksNothing(u) ==
    /\ task[u] = "checking"
    /\ drained' = [drained EXCEPT ![u] = Tail(@)]
    /\ task' = [task EXCEPT ![u] = "processing"]
    /\ UNCHANGED <<data_lock, upload_lock, uploads, was_notified, fin, taken, posted,
                   dilate_calls, told, reacted, missed, events,
                   dilation, caller, upload>>

\* Lines 629-638: a skin without 256x128 image is removed again.
LoopChecks256(u) ==
    /\ task[u] = "checking"
    /\ LET m == Head(drained[u])[1]
           name == SkinName(m)
           skins == uploads[u].skins_to_upload
       IN  IF name \in DOMAIN skins /\ skins[name].file_256x128 = 0
           THEN uploads' = [uploads EXCEPT ![u].skins_to_upload = Without(skins, name),
                                           ![u].errors = @ \cup {<<"had no 256x128 skin", m>>}]
           ELSE uploads' = uploads
    /\ drained' = [drained EXCEPT ![u] = Tail(@)]
    /\ task' = [task EXCEPT ![u] = "processing"]
    /\ UNCHANGED <<data_lock, upload_lock, was_notified, fin, taken, posted,
                   dilate_calls, told, reacted, missed, events,
                   dilation, caller, upload>>

\* Lines 659-760: all drained messages are processed; the response is edited,
\* the lock given back, and the task waits again.
LoopEdits(u) ==
    /\ task[u] = "processing"
    /\ drained[u] = <<>>
    /\ data_lock' = Free
    /\ task' = [task EXCEPT ![u] = "waiting"]
    /\ UNCHANGED <<upload_lock, uploads, was_notified, drained, fin, taken, posted,
                   dilate_calls, told, reacted, missed, events,
                   dilation, caller, upload>>

\* Lines 648-657: notified and Uploading or Cancelled; the item is removed.
LoopRemoves(u) ==
    /\ task[u] = "woken"
    /\ data_lock = Free
    /\ was_notified[u]
    /\ uploads[u].state # "Collecting"
    /\ uploads' = Without(uploads, u)
    /\ task' = [task EXCEPT ![u] = "ended"]
    /\ UNCHANGED <<data_lock, upload_lock, was_notified, drained, fin, taken, posted,
                   dilate_calls, told, reacted, missed, events,
                   dilation, caller, upload>>

\* Lines 762-779: not notified; the response becomes "Upload timed out" and
\* the item is removed.
LoopTimeoutRemoves(u) ==
    /\ task[u] = "woken"
    /\ data_lock = Free
    /\ ~was_notified[u]
    /\ told' = [told EXCEPT ![u] = @ \cup {"Upload timed out"}]
    /\ uploads' = Without(uploads, u)
    /\ task' = [task EXCEPT ![u] = "ended"]
    /\ UNCHANGED <<data_lock, upload_lock, was_notified, drained, fin, taken, posted,
                   dilate_calls, reacted, missed, events, dilation, caller, upload>>

\* Lines 800-870: reaction_add of user u on message m with the emoji of the
\* database db, under the write lock.  The message is fetched and the skin of
\* its name removed, or the message cannot be fetched; the message is put on
\* skins_try_upload; notify_one().
ReactionAdd(u, m, db) ==
    /\ events > 0
    /\ data_lock = Free
    /\ u \in DOMAIN uploads
    /\ \E fetched \in BOOLEAN :
           uploads' = [uploads EXCEPT
               ![u].skins_to_upload = IF fetched THEN Without(@, SkinName(m)) ELSE @,
               ![u].skins_try_upload = KeyInserted(@, m, db),
               ![u].notify = TRUE]
    /\ reacted' = reacted \cup {<<u, m>>}
    /\ events' = events - 1
    /\ UNCHANGED <<data_lock, upload_lock, task, was_notified, drained, fin, taken,
                   posted, dilate_calls, told, missed, dilation, caller, upload>>

\* Lines 872-903: reaction_remove of user u on message m.
ReactionRemove(u, m) ==
    /\ events > 0
    /\ data_lock = Free
    /\ u \in DOMAIN uploads
    /\ <<u, m>> \in reacted
    /\ \E fetched \in BOOLEAN :
           uploads' = [uploads EXCEPT
               ![u].skins_to_upload = IF fetched THEN Without(@, SkinName(m)) ELSE @,
               ![u].skins_try_upload = KeyRemoved(@, m),
               ![u].notify = TRUE]
    /\ reacted' = reacted \ {<<u, m>>}
    /\ events' = events - 1
    /\ UNCHANGED <<data_lock, upload_lock, task, was_notified, drained, fin, taken,
                   posted, dilate_calls, told, missed, dilation, caller, upload>>

\* upload_cancel that does not look at the state.
UploadCancelAnyState(u) ==
    /\ events > 0
    /\ events' = events - 1
    /\ data_lock = Free
    /\ u \in DOMAIN uploads
    /\ told' = [told EXCEPT ![u] = @ \cup {"Skin upload cancelled"}]
    /\ uploads' = [uploads EXCEPT ![u].state = "Cancelled", ![u].notify = TRUE]
    /\ UNCHANGED <<data_lock, upload_lock, task, was_notified, drained, fin, taken,
                   posted, dilate_calls, reacted, missed,
                   dilation, caller, upload>>

\* Lines 82-118: upload_cancel of user u, under the write lock.
UploadCancel(u) ==
    /\ events > 0
    /\ events' = events - 1
    /\ data_lock = Free
    /\ IF u \in DOMAIN uploads
       THEN IF uploads[u].state = "Collecting"
            THEN /\ told' = [told EXCEPT ![u] = @ \cup {"Skin upload cancelled"}]
                 /\ uploads' = [uploads EXCEPT ![u].state = "Cancelled",
                                                 ![u].notify = TRUE]
            ELSE /\ told' = [told EXCEPT ![u] = @ \cup {"Cannot cancel upload"}]
                 /\ uploads' = uploads
       ELSE /\ told' = [told EXCEPT ![u] = @ \cup {"You never started an upload"}]
            /\ uploads' = uploads
    /\ UNCHANGED <<data_lock, upload_lock, task, was_notified, drained, fin, taken,
                   posted, dilate_calls, reacted, missed,
                   dilation, caller, upload>>

\* Line 134: upload_finish of user u takes the write lock.
FinishLocks(u) ==
    /\ events > 0
    /\ events' = events - 1
    /\ fin[u] = "idle"
    /\ data_lock = Free
    /\ data_lock' = <<"finish", u>>
    /\ fin' = [fin EXCEPT ![u] = "locked"]
    /\ UNCHANGED <<upload_lock, uploads, task, was_notified, drained, taken, posted,
                   dilate_calls, told, reacted, missed,
                   dilation, caller, upload>>

\* Lines 135-148 without the test of line 141.
FinishTakesAnyState(u) ==
    /\ fin[u] = "locked"
    /\ u \in DOMAIN uploads
    /\ uploads' = [uploads EXCEPT ![u].state = "Uploading", ![u].notify = TRUE]
    /\ taken' = [taken EXCEPT ![u] = uploads[u].skins_to_upload]
    /\ missed' = [missed EXCEPT ![u] = Keys(uploads[u].skins_try_upload)]
    /\ data_lock' = Free
    /\ fin' = [fin EXCEPT ![u] = "starting"]
    /\ UNCHANGED <<upload_lock, task, was_notified, drained, posted, dilate_calls,
                   told, reacted, events, dilation, caller, upload>>

\* Lines 135-148 without drop(data): the guard lives on.
FinishTakesKeepsLock(u) ==
    /\ fin[u] = "locked"
    /\ u \in DOMAIN uploads
    /\ uploads[u].state = "Collecting"
    /\ uploads' = [uploads EXCEPT ![u].state = "Uploading", ![u].notify = TRUE]
    /\ taken' = [taken EXCEPT ![u] = uploads[u].skins_to_upload]
    /\ missed' = [missed EXCEPT ![u] = Keys(uploads[u].skins_try_upload)]
    /\ fin' = [fin EXCEPT ![u] = "starting"]
    /\ UNCHANGED <<data_lock, upload_lock, task, was_notified, drained, posted,
                   dilate_calls, told, reacted, events, dilation, caller, upload>>

\* Lines 135-148: the user has an item and it is Collecting; it becomes
\* Uploading, notify_one(), the skins are cloned and the lock is dropped.
FinishTakes(u) ==
    /\ fin[u] = "locked"
    /\ u \in DOMAIN uploads
    /\ uploads[u].state = "Collecting"
    /\ uploads' = [uploads EXCEPT ![u].state = "Uploading", ![u].notify = TRUE]
    /\ taken' = [taken EXCEPT ![u] = uploads[u].skins_to_upload]
    /\ missed' = [missed EXCEPT ![u] = Keys(uploads[u].skins_try_upload)]
    /\ data_lock' = Free
    /\ fin' = [fin EXCEPT ![u] = "starting"]
    /\ UNCHANGED <<upload_lock, task, was_notified, drained, posted, dilate_calls,
                   told, reacted, events, dilation, caller, upload>>

\* Lines 317-336: no item, or one that is not Collecting; the user is told
\* so and the lock is given back when upload_finish returns.
FinishTurnedAway(u) ==
    /\ fin[u] = "locked"
    /\ IF u \in DOMAIN uploads THEN uploads[u].state # "Collecting" ELSE TRUE
    /\ told' = [told EXCEPT ![u] = @ \cup
                    {IF u \in DOMAIN uploads THEN "An upload is already in progress"
                                             ELSE "You never started an upload"}]
    /\ data_lock' = Free
    /\ fin' = [fin EXCEPT ![u] = "idle"]
    /\ UNCHANGED <<upload_lock, uploads, task, was_notified, drained, taken, posted,
                   dilate_calls, reacted, missed, events, dilation, caller, upload>>

\* upload_finish that goes on without the upload lock being free.
FinishStartsAtOnce(u) ==
    /\ fin[u] = "starting"
    /\ upload_lock' = <<"finish", u>>
    /\ fin' = [fin EXCEPT ![u] = "uploading"]
    /\ UNCHANGED <<data_lock, uploads, task, was_notified, drained, taken, posted,
                   dilate_calls, told, reacted, missed, events,
                   dilation, caller, upload>>

\* Line 150: upload_lock.lock().
FinishStarts(u) ==
    /\ fin[u] = "starting"
    /\ upload_lock = Free
    /\ upload_lock' = <<"finish", u>>
    /\ fin' = [fin EXCEPT ![u] = "uploading"]
    /\ UNCHANGED <<data_lock, uploads, task, was_notified, drained, taken, posted,
                   dilate_calls, told, reacted, missed, events,
                   dilation, caller, upload>>

\* The calls of dilate_image of lines 183-192 and 219-227 for the skins of a
\* clone.
DilateCalls(u, skins) ==
    {[user |-> u, name |-> n, len |-> skins[n].file_256x128, w |-> 256, h |-> 128, bpp |-> 4] :
        n \in {k \in DOMAIN skins : skins[k].file_256x128 # 0}}
    \cup
    {[user |-> u, name |-> n, len |-> skins[n].file_512x256, w |-> 512, h |-> 256, bpp |-> 4] :
        n \in {k \in DOMAIN skins : skins[k].file_512x256 # 0}}

\* Lines 166-316: the loop over the clone (SpecUpload has its steps): the
\* images that are not empty are dilated and posted; upload_finish returns
\* and the upload lock is free again.
FinishUploads(u) ==
    /\ fin[u] = "uploading"
    /\ dilate_calls' = dilate_calls \cup DilateCalls(u, taken[u])
    /\ posted' = posted \cup {<<u, call.name>> : call \in DilateCalls(u, taken[u])}
    /\ upload_lock' = Free
    /\ fin' = [fin EXCEPT ![u] = "idle"]
    /\ UNCHANGED <<data_lock, uploads, task, was_notified, drained, taken, told,
                   reacted, missed, events, dilation, caller, upload>>

\* What the task of /upload of user u does, and what upload_finish does while
\* it holds a lock.
TaskStep(u) ==
    \/ UploadCommand(u)
    \/ InsertSession(u)
    \/ ResponseFails(u)
    \/ LoopNotified(u)
    \/ LoopTimesOut(u)
    \/ LoopDrains(u)
    \/ LoopTakesFiles(u)
    \/ LoopChecks256(u)
    \/ LoopEdits(u)
    \/ LoopRemoves(u)
    \/ LoopTimeoutRemoves(u)

FinishStep(u) ==
    \/ FinishTakes(u)
    \/ FinishTurnedAway(u)
    \/ FinishStarts(u)
    \/ FinishUploads(u)

\* The steps of the users of S, who react with the emoji of the databases D.
NextOf(S, D) ==
    \/ \E u \in S : TaskStep(u)
    \/ \E u \in S : FinishLocks(u)
    \/ \E u \in S : FinishStep(u)
    \/ \E u \in S : UploadCancel(u)
    \/ \E u \in S, m \in Messages, db \in D : ReactionAdd(u, m, db)
    \/ \E u \in S, m \in Messages : ReactionRemove(u, m)

\* The holders of the role, reacting for the normal database.
NextSession == NextOf(Users, {"Normal"})

SpecSession == InitSession /\ [][NextSession]_vars

\* Lines 360-374 and 786-795: a slash command /upload_finish or
\* /upload_cancel of a user without the role is answered and nothing else.
CommandRefused(u) ==
    /\ events > 0
    /\ events' = events - 1
    /\ ~HasRole(u)
    /\ told' = [told EXCEPT ![u] = @ \cup {"You don't have the required permissions"}]
    /\ UNCHANGED <<data_lock, upload_lock, uploads, task, was_notified, drained, fin,
                   taken, posted, dilate_calls, reacted, missed,
                   dilation, caller, upload>>

\* Everyone sends commands, presses the buttons of lines 343-352 and reacts.
InitRole == NoDilation /\ NoUpload /\ Idle(MaxRoleEvents)
NextRole ==
    \/ NextOf(Everyone, {"Normal"})
    \/ \E u \in Everyone : CommandRefused(u)
SpecRole == InitRole /\ [][NextRole]_vars

\* One holder of the role, reacting for either database.
NextDatabase == NextOf({1}, Databases)
SpecDatabase == InitSession /\ [][NextDatabase]_vars

\* The tasks of the runtime are scheduled and the locks are handed out in
\* turn: the task of /upload and a running upload_finish always take their
\* next step.
InitSessionFair == NoDilation /\ NoUpload /\ Idle(MaxFairEvents)
SpecSessionFair ==
    /\ InitSessionFair
    /\ [][NextSession]_vars
    /\ \A u \in Users : WF_vars(TaskStep(u)) /\ WF_vars(FinishStep(u))

\* ------------------------------------------- the pipeline as one function
RECURSIVE Converge(_, _, _, _, _, _)
\* Lines 109-126: buffer_data1 after `rounds` round trips b1 -> b2 -> b1.
Converge(dw, dh, dbpp, b1, b2, rounds) ==
    IF rounds = 0 THEN b1
    ELSE LET nb2 == Tabulated(dilate(dw, dh, dbpp, b1, b2, TW_DILATE_ALPHA_THRESHOLD))
             nb1 == Tabulated(dilate(dw, dh, dbpp, nb2, b1, TW_DILATE_ALPHA_THRESHOLD))
         IN  Converge(dw, dh, dbpp, nb1, nb2, rounds - 1)

\* dilate_image_sub(img_buff, w, _h, bpp, x, y, sw, sh): img_buff after.
dilate_image_sub(buf, bw, bh, dbpp, rx, ry, rsw, rsh) ==
    LET zero == ZeroVec(rsw * rsh * dbpp)
        orig == Tabulated(ExtractRows(zero, buf, bw, dbpp, rx, ry, rsw, rsh))
        first == Tabulated(dilate(rsw, rsh, dbpp, orig, zero, TW_DILATE_ALPHA_THRESHOLD))
        last == Converge(rsw, rsh, dbpp, first, zero, Rounds)
        merged == Tabulated(copy_color_values(rsw, rsh, dbpp, last, orig))
    IN  WriteRows(buf, merged, bw, dbpp, rx, ry, rsw, rsh)

\* dilate_image(img_buff, w, h, bpp)
dilate_image_short(buf, bw, bh, dbpp) == dilate_image_sub(buf, bw, bh, dbpp, 0, 0, bw, bh - 1)

dilate_image(buf, bw, bh, dbpp) == dilate_image_sub(buf, bw, bh, dbpp, 0, 0, bw, bh)

\* The source and the destination of the latest call of dilate: the first
\* reads the extracted original, then the two buffers alternate.
PassSrc ==
    IF passes = 1 THEN buffer_data_original
    ELSE IF passes % 2 = 0 THEN buffer_data1 ELSE buffer_data2

PassDst == IF passes % 2 = 1 THEN buffer_data1 ELSE buffer_data2

\* The stepwise run ends where the function does.
RunMatchesFunction ==
    pc = "done" => img_buff = dilate_image_sub(img_in, w, h, bpp, x, y, sw, sh)

\* ---------------------------------------------------- vocabulary of claims
Alpha(buf, i) == buf[i * bpp + (bpp - 1)]
Colour(buf, i) == [p \in 0..(bpp - 2) |-> buf[i * bpp + p]]
Pixel(buf, i) == [p \in 0..(bpp - 1) |-> buf[i * bpp + p]]
Black == [p \in 0..(bpp - 2) |-> 0]

Opaque(buf, i) == Alpha(buf, i) > TW_DILATE_ALPHA_THRESHOLD
Eligible(buf, i) == Alpha(buf, i) <= TW_DILATE_ALPHA_THRESHOLD

\* Pixels of the rectangle, numbered row-major inside it.
RectPixels == 0..(sw * sh - 1)
\* Pixels of the caller's buffer, numbered row-major.
BufPixels == 0..(w * h - 1)
InRect(i) == /\ i % w >= x /\ i % w < x + sw
             /\ i \div w >= y /\ i \div w < y + sh

\* The neighbours of pixel i of the rectangle, clamped to its edges, in the
\* order 1 = North, 2 = West, 3 = East, 4 = South.
Nb(i, d) ==
    CASE d = 1 -> IF i \div sw = 0 THEN i ELSE i - sw
      [] d = 2 -> IF i % sw = 0 THEN i ELSE i - 1
      [] d = 3 -> IF i % sw = sw - 1 THEN i ELSE i + 1
      [] d = 4 -> IF i \div sw = sh - 1 THEN i ELSE i + sw

OpaqueDirs(buf, i) == {d \in 1..4 : Opaque(buf, Nb(i, d))}
FirstOpaqueNb(buf, i) ==
    Nb(i, CHOOSE d \in OpaqueDirs(buf, i) : \A e \in OpaqueDirs(buf, i) : d <= e)

Abs(v) == IF v < 0 THEN -v ELSE v
Manhattan(i, j) == Abs((i % sw) - (j % sw)) + Abs((i \div sw) - (j \div sw))

FullImage == x = 0 /\ y = 0 /\ sw = w /\ sh = h

\* A buffer of one opaque red pixel.
OpaqueRedBuffer == BufferOf([i \in {0} |-> OpaqueRed], bpp)

\* A palette pixel as the bytes of one pixel of the buffer.
Px(t) == [p \in 0..(bpp - 1) |-> PixelByte(t, bpp, p)]

\* ------------------------------------------------------------------ C1
\* C1 (alpha invariance): when dilate_image_sub has returned, the alpha-like
\* byte of every pixel of the caller's buffer, inside the rectangle or not,
\* is the byte the input had there.
AlphaInvariance ==
    pc = "done" => \A i \in BufPixels : Alpha(img_buff, i) = Alpha(img_in, i)

\* A call on a proper sub-rectangle has returned and changed the buffer.
AlphaInvarianceWitness ==
    /\ pc = "done"
    /\ ~FullImage
    /\ img_buff # img_in
    /\ \E i \in BufPixels : Alpha(img_in, i) = 0 /\ Colour(img_buff, i) # Colour(img_in, i)

\* ------------------------------------------------------------------ C2
\* C2 (frame of the merge): after dilate_image every pixel whose input alpha
\* is nonzero, the values 1..10 at or below the threshold included, has all
\* its bytes as in the input; a changed byte belongs to an alpha-0 pixel.
NonzeroAlphaUntouched ==
    pc = "done" =>
        \A i \in BufPixels :
            /\ Alpha(img_in, i) # 0 => Pixel(img_buff, i) = Pixel(img_in, i)
            /\ Pixel(img_buff, i) # Pixel(img_in, i) => Alpha(img_in, i) = 0

\* A pixel with alpha in 1..10 was recoloured in the last pass buffer and is
\* nevertheless as in the input, while an alpha-0 pixel did change.
NonzeroAlphaUntouchedWitness ==
    /\ pc = "done"
    /\ \E i \in BufPixels :
           /\ Alpha(img_in, i) \in 1..TW_DILATE_ALPHA_THRESHOLD
           /\ Pixel(buffer_data1, i) # Pixel(img_in, i)
    /\ \E i \in BufPixels : Alpha(img_in, i) = 0 /\ Pixel(img_buff, i) # Pixel(img_in, i)

\* ------------------------------------------------------------------ C3
AllOpaqueIn == \A i \in BufPixels : Opaque(img_in, i)

\* C3 (idempotence on fully opaque images): when every input pixel is
\* opaque, each pass writes a destination equal to its source and to the
\* input, whatever the number of passes, and dilate_image returns the input.
OpaqueIdempotent ==
    AllOpaqueIn =>
        /\ passes >= 1 => PassDst = PassSrc /\ PassDst = img_in
        /\ pc = "done" => img_buff = img_in

\* dilate_image has returned on a fully opaque image of two different pixels.
OpaqueIdempotentWitness ==
    /\ AllOpaqueIn
    /\ pc = "done"
    /\ passes = 1 + 2 * Rounds
    /\ \E i, j \in BufPixels : Pixel(img_in, i) # Pixel(img_in, j)

\* ------------------------------------------------------------------ C4
\* C4 (first-hit neighbour rule): in every pass, a pixel that is eligible in
\* the source and has an opaque clamped neighbour gets the colour bytes of
\* the first opaque one in the order North, West, East, South, and alpha
\* 255: the colour of one neighbour, never a mix of several.
FirstHitRule ==
    passes >= 1 =>
        \A i \in RectPixels :
            (Eligible(PassSrc, i) /\ OpaqueDirs(PassSrc, i) # {}) =>
                /\ Colour(PassDst, i) = Colour(PassSrc, FirstOpaqueNb(PassSrc, i))
                /\ Alpha(PassDst, i) = 255

\* A pass filled a pixel that has two opaque neighbours of different colours.
FirstHitRuleWitness ==
    /\ passes >= 1
    /\ \E i \in RectPixels :
           /\ Eligible(PassSrc, i)
           /\ \E d, e \in OpaqueDirs(PassSrc, i) :
                  /\ d < e
                  /\ Colour(PassSrc, Nb(i, d)) # Colour(PassSrc, Nb(i, e))
                  /\ Colour(PassDst, i) = Colour(PassSrc, Nb(i, d))

\* ------------------------------------------------------------------ C5
\* C5 (no-neighbour case): in every pass, a pixel that is eligible in the
\* source and whose four clamped neighbours are all eligible ends with all
\* colour bytes zero and the alpha-like byte of the source, at most the
\* threshold.
NoNeighbourCase ==
    passes >= 1 =>
        \A i \in RectPixels :
            (Eligible(PassSrc, i) /\ OpaqueDirs(PassSrc, i) = {}) =>
                /\ Colour(PassDst, i) = Black
                /\ Alpha(PassDst, i) = Alpha(PassSrc, i)
                /\ Alpha(PassDst, i) <= TW_DILATE_ALPHA_THRESHOLD

\* The first pass cleared a coloured pixel of nonzero alpha that has another
\* pixel, eligible too, beside it.
NoNeighbourCaseWitness ==
    /\ passes = 1
    /\ sw * sh >= 2
    /\ \E i \in RectPixels :
           /\ Eligible(PassSrc, i)
           /\ OpaqueDirs(PassSrc, i) = {}
           /\ Colour(PassSrc, i) # Black
           /\ Alpha(PassSrc, i) > 0
           /\ Colour(PassDst, i) = Black

\* ------------------------------------------------------------------ C6
\* A one-row image, pixel 0 opaque and alpha 0 everywhere else.
RowCase ==
    /\ FullImage
    /\ h = 1
    /\ Opaque(img_in, 0)
    /\ \A i \in 1..(w - 1) : Alpha(img_in, i) = 0

\* After `passes` passes the pixels 0..min(passes, w - 1) are opaque and
\* carry the colour of pixel 0.
RowFront ==
    \A i \in 0..(w - 1) :
        i <= passes => Opaque(PassDst, i) /\ Colour(PassDst, i) = Colour(img_in, 0)

\* C6 as stated: the front, and every pixel beyond index `passes` has all
\* its bytes as in the input, whatever colour the input stored there.
PropagationBoundAsStated ==
    (RowCase /\ passes >= 1) =>
        /\ RowFront
        /\ \A i \in 0..(w - 1) : i > passes => Pixel(PassDst, i) = Pixel(img_in, i)

\* C6 (propagation bound), amended: in the row case, after P >= 1 passes the
\* pixels 0..min(P, W - 1) are opaque with the colour of pixel 0, and every
\* pixel beyond index P keeps alpha 0 and has all colour bytes zero (the
\* pass clears the colour of a transparent pixel it does not fill).
PropagationBound ==
    (RowCase /\ passes >= 1) =>
        /\ RowFront
        /\ \A i \in 0..(w - 1) :
               i > passes => Alpha(PassDst, i) = 0 /\ Colour(PassDst, i) = Black

\* Two passes over a row of four: pixel 2 is filled, pixel 3, coloured in the
\* input, is beyond the front.
PropagationBoundWitness ==
    /\ RowCase
    /\ w >= 4
    /\ passes = 2
    /\ Colour(img_in, 3) # Black
    /\ Opaque(PassDst, 2)
    /\ ~Opaque(PassDst, 3)

\* ------------------------------------------------------------------ C7
\* C7 (reach after P passes): after P >= 1 passes every pixel that was
\* eligible in the input and lies within P axis-aligned steps of a pixel
\* that was opaque in the input has alpha 255 and the colour of some pixel
\* opaque in the input, also when the pixels between them have alpha 1..10.
ReachAfterPasses ==
    (FullImage /\ passes >= 1) =>
        \A i \in RectPixels :
            (/\ Eligible(img_in, i)
             /\ \E j \in RectPixels : Opaque(img_in, j) /\ Manhattan(i, j) <= passes) =>
                /\ Alpha(PassDst, i) = 255
                /\ \E j \in RectPixels :
                       Opaque(img_in, j) /\ Colour(PassDst, i) = Colour(img_in, j)

\* After two passes a pixel two steps from the nearest opaque pixel is filled
\* through a pixel whose alpha is in 1..10.
ReachAfterPassesWitness ==
    /\ FullImage
    /\ passes = 2
    /\ \E i, j, k \in RectPixels :
           /\ Eligible(img_in, i)
           /\ Opaque(img_in, j)
           /\ Manhattan(i, j) = 2
           /\ \A m \in RectPixels : Opaque(img_in, m) => Manhattan(i, m) >= 2
           /\ Manhattan(i, k) = 1 /\ Manhattan(k, j) = 1
           /\ Alpha(img_in, k) \in 1..TW_DILATE_ALPHA_THRESHOLD
           /\ Alpha(PassDst, i) = 255
           /\ Colour(PassDst, i) = Colour(img_in, j)

\* ------------------------------------------------------------------ C8
\* C8 (end-to-end adjacent fill): after dilate_image every pixel whose input
\* alpha is 0 and that has a neighbour with input alpha above 10 ends with
\* the colour of the first such neighbour in North, West, East, South order
\* and with alpha 0.
AdjacentFill ==
    (FullImage /\ pc = "done") =>
        \A i \in BufPixels :
            (Alpha(img_in, i) = 0 /\ OpaqueDirs(img_in, i) # {}) =>
                /\ Colour(img_buff, i) = Colour(img_in, FirstOpaqueNb(img_in, i))
                /\ Alpha(img_buff, i) = 0

\* The 2x1 image [(255,0,0,255), (0,0,0,0)] ends as
\* [(255,0,0,255), (255,0,0,0)].
AdjacentFillWitness ==
    /\ pc = "done"
    /\ w = 2 /\ h = 1 /\ bpp = 4
    /\ Pixel(img_in, 0) = Px(<<255, 0, 0, 255>>)
    /\ Pixel(img_in, 1) = Px(<<0, 0, 0, 0>>)
    /\ Pixel(img_buff, 0) = Px(<<255, 0, 0, 255>>)
    /\ Pixel(img_buff, 1) = Px(<<255, 0, 0, 0>>)

\* ------------------------------------------------------------------ C9
\* The colours tried in place of the colour of an alpha-0 pixel.
Recolours == {ClearBlack, ClearInk}

\* The buffers that differ from buf at most in the colour bytes of its
\* alpha-0 pixels.
Recolourings(buf) ==
    { [j \in DOMAIN buf |->
          IF Alpha(buf, j \div bpp) = 0 /\ j % bpp < bpp - 1
          THEN PixelByte(g[j \div bpp], bpp, j % bpp)
          ELSE buf[j]] :
      g \in [{i \in BufPixels : Alpha(buf, i) = 0} -> Recolours] }

\* C9 (the colour of a transparent pixel is not an input): after dilate_image
\* the colour bytes of every pixel with input alpha 0 are those of the buffer
\* the last, 11th, pass wrote, and every input that differs from this one
\* only in the colour bytes of alpha-0 pixels gives the same output.
ClearColourIgnored ==
    (FullImage /\ pc = "done") =>
        /\ passes = 1 + 2 * Rounds /\ PassDst = buffer_data1
        /\ \A i \in BufPixels :
               Alpha(img_in, i) = 0 => Colour(img_buff, i) = Colour(buffer_data1, i)
        /\ \A v \in Recolourings(img_in) : dilate_image(v, w, h, bpp) = img_buff

\* dilate_image has returned on an image of three pixels or more in which a
\* coloured alpha-0 pixel ends with a colour that is neither its own nor black.
ClearColourIgnoredWitness ==
    /\ pc = "done"
    /\ w * h >= 3
    /\ \E i \in BufPixels :
           /\ Alpha(img_in, i) = 0
           /\ Colour(img_in, i) # Black
           /\ Colour(img_buff, i) # Colour(img_in, i)
           /\ Colour(img_buff, i) # Black
           /\ Alpha(img_buff, i) = 0

\* ------------------------------------------------------------------ C10
\* C10 (frame of the region variant): dilate_image_sub on a rectangle inside
\* the buffer leaves every byte of every pixel outside the rectangle as it
\* was, during the call and after it.
RegionFrame ==
    \A i \in BufPixels : ~InRect(i) => Pixel(img_buff, i) = Pixel(img_in, i)

\* A call has returned that changed the rectangle and left alone a
\* transparent pixel outside it, next to which the rectangle holds an opaque
\* pixel.
RegionFrameWitness ==
    /\ pc = "done"
    /\ img_buff # img_in
    /\ \E i, j \in BufPixels :
           /\ ~InRect(i) /\ InRect(j)
           /\ Alpha(img_in, i) = 0
           /\ Opaque(img_in, j)
           /\ Abs((i % w) - (j % w)) + Abs((i \div w) - (j \div w)) = 1
           /\ Pixel(img_buff, i) = Pixel(img_in, i)

\* ------------------------------------------------------------------ C11
\* The rectangle of buf as an image of its own, sw pixels wide.
SubImage(buf) ==
    [j \in 0..(sw * sh * bpp - 1) |->
        LET i == j \div bpp
        IN  buf[((y + (i \div sw)) * w + x + (i % sw)) * bpp + (j % bpp)]]

\* C11 (region isolation): what dilate_image_sub leaves in the rectangle is
\* what dilate_image gives on the rectangle taken out as an sw x sh image of
\* its own, so nothing outside the rectangle colours a pixel inside it.
RegionIsolation ==
    pc = "done" => SubImage(img_buff) = dilate_image(SubImage(img_in), sw, sh, bpp)

\* A call has returned whose rectangle holds no opaque pixel and has a
\* coloured alpha-0 pixel right beside an opaque pixel outside it: the pixel
\* ends black.
RegionIsolationWitness ==
    /\ pc = "done"
    /\ \A j \in BufPixels : InRect(j) => ~Opaque(img_in, j)
    /\ \E i, j \in BufPixels :
           /\ ~InRect(i) /\ InRect(j)
           /\ Opaque(img_in, i)
           /\ Abs((i % w) - (j % w)) + Abs((i \div w) - (j \div w)) = 1
           /\ Alpha(img_in, j) = 0
           /\ Colour(img_in, j) # Black
           /\ Colour(img_buff, j) = Black

\* ------------------------------------------------------------------ C12
\* C12 (region/full equivalence): dilate_image_sub called with the rectangle
\* (0, 0, w, h) leaves the buffer that dilate_image(buf, w, h, bpp) gives.
RegionFullEquivalence ==
    (pc = "done" /\ FullImage) => img_buff = dilate_image(img_in, w, h, bpp)

\* dilate_image_sub has returned on the whole of an image of two rows and
\* changed it.
RegionFullEquivalenceWitness ==
    /\ pc = "done"
    /\ FullImage
    /\ h >= 2
    /\ img_buff # img_in

\* C13: the output of dilate_image depends only on its arguments: every call
\* of a sequence of calls leaves in the buffer the value of the function
\* dilate_image at the buffer it was given, whatever the calls before it
\* worked on, and a call on a buffer equal to the first one leaves what the
\* first call left.
Deterministic ==
    pc = "done" =>
        /\ img_buff = dilate_image(img_in, w, h, bpp)
        /\ (calls >= 2 /\ img_in = first_in) => img_buff = first_out

\* The third call is on a buffer equal to the first, the second was on
\* another one, and the dilation changes the buffer.
DeterministicWitness ==
    /\ pc = "done"
    /\ calls = 3
    /\ others = 1
    /\ img_in = first_in
    /\ img_buff = first_out
    /\ img_buff # img_in

\* The rectangle is inside the w x h buffer.
Contained == x + sw <= w /\ y + sh <= h

\* C14: when the rectangle is not inside the buffer, dilate_image_sub faults:
\* it does not go on to read or write the buffer, and the buffer is as it was
\* passed in.
RectangleFaults ==
    (~Contained /\ pc # "alloc") => (pc = "panic" /\ img_buff = img_in)

\* The pixels of the rectangle that are opaque in the input.
Sources == {j \in RectPixels : Opaque(img_in, j)}
\* Manhattan distance of pixel i to the nearest of them (0 when there is none).
Nearest(i) ==
    IF Sources = {} THEN 0
    ELSE LET j == CHOOSE j \in Sources : \A k \in Sources : Manhattan(i, j) <= Manhattan(i, k)
         IN  Manhattan(i, j)

\* C16: the merge follows the 11th pass and reads the buffer that pass wrote,
\* so that in the result of dilate_image a pixel of alpha 0 whose nearest
\* opaque pixel of the input is at Manhattan distance 11 or less has the
\* colour of an opaque pixel at that distance, and a pixel of alpha 0 further
\* away, or in an image without opaque pixel, has all colour bytes zero.
RadiusEleven ==
    /\ pc \in {"merge", "writeback", "done"} => passes = 11 /\ PassDst = buffer_data1
    /\ (pc = "done" /\ FullImage) =>
           \A i \in RectPixels :
               Alpha(img_in, i) = 0 =>
                   IF Sources # {} /\ Nearest(i) <= 11
                   THEN \E j \in Sources : /\ Manhattan(i, j) = Nearest(i)
                                            /\ Colour(img_buff, i) = Colour(img_in, j)
                   ELSE Colour(img_buff, i) = Black

\* One opaque pixel in a corner of a band two pixels thick: a pixel at distance
\* 11 in the other row has taken its colour, the pixel at distance 12 is black.
RadiusElevenWitness ==
    /\ pc = "done"
    /\ FullImage
    /\ sh = 2
    /\ Sources = {0}
    /\ \E i \in RectPixels :
           /\ i \div sw = 1
           /\ Manhattan(i, 0) = 11
           /\ Colour(img_buff, i) = Colour(img_in, 0)
           /\ Colour(img_in, i) # Colour(img_in, 0)
    /\ \E i \in RectPixels :
           /\ Manhattan(i, 0) = 12
           /\ Colour(img_buff, i) = Black
           /\ Colour(img_in, i) # Black

\* A pass has been made and its two buffers are as it left them.
AfterPass == passes >= 1 /\ pc \in {"ping", "pong", "merge"}

\* C17: in every pass, the index dilate reads for a neighbour of pixel i is
\* inside the source buffer and is the index of the pixel one step north,
\* west, east or south of i, or of i itself where that step would leave the
\* image; so a transparent pixel with no opaque pixel one step away in the
\* image is not filled, whatever lies on the opposite edge or next to it in
\* the byte order.
ClampToEdge ==
    AfterPass =>
        \A i \in RectPixels :
            /\ \A c \in 0..3 :
                   LET k == NeighbourOffset(sw, sh, bpp, i % sw, i \div sw, c)
                   IN  /\ k >= 0
                       /\ k + bpp <= Cardinality(DOMAIN PassSrc)
                       /\ k = Nb(i, c + 1) * bpp
            /\ ( /\ Eligible(PassSrc, i)
                 /\ \A j \in RectPixels : Manhattan(i, j) = 1 => ~Opaque(PassSrc, j) )
               => /\ Alpha(PassDst, i) = Alpha(PassSrc, i)
                  /\ Colour(PassDst, i) = Black

\* First pass on an image three wide and two high whose only opaque pixel is
\* the first of the second row: the last pixel of the first row, its
\* predecessor in the byte order, and the last pixel of the second row, on
\* the opposite edge, are both left unfilled, while the pixel above is filled.
ClampToEdgeWitness ==
    /\ pc = "ping" /\ passes = 1
    /\ sw = 3 /\ sh = 2
    /\ {j \in RectPixels : Opaque(buffer_data_original, j)} = {3}
    /\ ~Opaque(buffer_data1, 2)
    /\ ~Opaque(buffer_data1, 5)
    /\ Opaque(buffer_data1, 0)

\* C18: in every pass a pixel whose alpha-like byte is 11 or more is opaque:
\* it is copied as it is.  A pixel whose byte is 10 or less is eligible: it
\* either keeps its byte and has its colour zeroed, and then none of its
\* neighbours has a byte above 10, or it is filled, with alpha 255 and the
\* colour of a neighbour whose byte is 11 or more.
StrictThreshold ==
    AfterPass =>
        \A i \in RectPixels :
            /\ Alpha(PassSrc, i) >= 11 => Pixel(PassDst, i) = Pixel(PassSrc, i)
            /\ Alpha(PassSrc, i) <= 10 =>
                   \/ /\ Alpha(PassDst, i) = Alpha(PassSrc, i)
                      /\ Colour(PassDst, i) = Black
                      /\ \A d \in 1..4 : Alpha(PassSrc, Nb(i, d)) <= 10
                   \/ /\ Alpha(PassDst, i) = 255
                      /\ \E d \in 1..4 :
                             /\ Alpha(PassSrc, Nb(i, d)) >= 11
                             /\ Colour(PassDst, i) = Colour(PassSrc, Nb(i, d))

\* First pass on a row that begins with a pixel of alpha 0, one of alpha 10
\* and one of alpha 11: the second takes the colour of the third, the third
\* stays, and the first, whose only neighbour has alpha 10, is not filled.
StrictThresholdWitness ==
    /\ pc = "ping" /\ passes = 1
    /\ sh = 1 /\ sw >= 3
    /\ Alpha(buffer_data_original, 0) = 0
    /\ Alpha(buffer_data_original, 1) = 10
    /\ Alpha(buffer_data_original, 2) = 11
    /\ Colour(buffer_data_original, 1) # Black
    /\ Alpha(buffer_data1, 1) = 255
    /\ Colour(buffer_data1, 1) = Colour(buffer_data_original, 2)
    /\ Pixel(buffer_data1, 2) = Pixel(buffer_data_original, 2)
    /\ Alpha(buffer_data1, 0) = 0
    /\ Colour(buffer_data1, 0) = Black

\* C19: a pixel that is opaque in the buffer a pass wrote has the same bytes
\* in the buffer the next pass writes (and so, being opaque there too, in the
\* buffer of every later pass).
StableOnceOpaque ==
    [][(passes >= 1 /\ passes' = passes + 1) =>
          \A i \in RectPixels :
              Opaque(PassDst, i) => Pixel(PassDst', i) = Pixel(PassDst, i)]_vars

\* A row red, clear, clear, green after the second pass.  The first pass gave
\* the third pixel the colour of its east neighbour and made its west
\* neighbour, which comes first in the order of the directions, opaque with
\* another colour; the second pass left the third pixel as it was.
StableOnceOpaqueWitness ==
    /\ pc = "pong" /\ passes = 2
    /\ sw = 4 /\ sh = 1
    /\ Opaque(buffer_data_original, 0)
    /\ Alpha(buffer_data_original, 1) = 0
    /\ Alpha(buffer_data_original, 2) = 0
    /\ Opaque(buffer_data_original, 3)
    /\ Colour(buffer_data_original, 0) # Colour(buffer_data_original, 3)
    /\ Opaque(buffer_data1, 1)
    /\ Colour(buffer_data1, 1) = Colour(buffer_data_original, 0)
    /\ Colour(buffer_data1, 2) = Colour(buffer_data_original, 3)
    /\ Pixel(buffer_data2, 2) = Pixel(buffer_data1, 2)

\* The buffer the next pass reads: the extracted rectangle before the first
\* pass, the buffer of the last pass after it.
NextSrc == IF passes = 0 THEN buffer_data_original ELSE PassDst

\* Destinations of sw * sh * bpp bytes that differ in every byte.
Stale == {[j \in 0..(sw * sh * bpp - 1) |-> 0], [j \in 0..(sw * sh * bpp - 1) |-> 255]}

\* C20: a pass leaves the buffer it reads as it was, and leaves in the buffer
\* it writes, all sw * sh * bpp bytes of it, what dilate computes from the
\* source and any other destination content.
PassFrame ==
    [][(passes' = passes + 1) =>
          /\ PassSrc' = NextSrc
          /\ DOMAIN PassDst' = 0..(sw * sh * bpp - 1)
          /\ \A d \in Stale :
                 PassDst' = dilate(sw, sh, bpp, NextSrc, d, TW_DILATE_ALPHA_THRESHOLD)]_vars

\* After the third pass: buffer_data1, which held the result of the first
\* pass, holds another content now, the result of the pass on buffer_data2,
\* and buffer_data2 is still the result of the second pass.
PassFrameWitness ==
    /\ pc = "ping" /\ passes = 3
    /\ LET first == dilate(sw, sh, bpp, buffer_data_original,
                           ZeroVec(sw * sh * bpp), TW_DILATE_ALPHA_THRESHOLD)
           second == dilate(sw, sh, bpp, first, ZeroVec(sw * sh * bpp),
                            TW_DILATE_ALPHA_THRESHOLD)
       IN  /\ buffer_data1 # first
           /\ buffer_data2 = second
           /\ buffer_data1 # buffer_data2
           /\ \E j \in DOMAIN first : first[j] # 0 /\ first[j] # buffer_data1[j]

\* The images of the snapshot that are not empty.
NonEmpty == {im \in Images : im[1] \in DOMAIN snapshot /\ snapshot[im[1]][im[2]]}

\* What is done with an image, in the order of the closure.
Steps == <<"dilate", "encode", "post">>

\* C15: in upload_finish, at every moment, what has been done with an image
\* is a beginning of: dilate_image once, then the PNG encoding, then the POST;
\* nothing is done with an empty image; when the loop over the snapshot is
\* over, all three have been done with every non-empty image; and the file
\* the form reads and every body the database received hold a buffer on
\* which dilate_image ran exactly once.
DilatedOnceBeforeUpload ==
    /\ \A im \in Images :
           /\ Len(trace[im]) <= 3
           /\ trace[im] = SubSeq(Steps, 1, Len(trace[im]))
           /\ im \notin NonEmpty => trace[im] = <<>>
    /\ upc = "done" => \A im \in NonEmpty : trace[im] = Steps
    /\ file # <<>> => file.dilated = 1
    /\ \A body \in sent : body.dilated = 1 /\ body.of \in NonEmpty

\* upload_finish is through with two skins, one with both images and one with
\* the small one only: three bodies have arrived, each dilated once.
DilatedOnceBeforeUploadWitness ==
    /\ upc = "done"
    /\ Cardinality(NonEmpty) = 3
    /\ <<1, "file_512x256">> \in NonEmpty
    /\ <<2, "file_512x256">> \notin NonEmpty
    /\ {body.of : body \in sent} = NonEmpty
    /\ \A im \in NonEmpty : trace[im] = Steps
    /\ refused

\* C23: dilate_image applied to its own result returns it unchanged.
Idempotent ==
    (pc = "done" /\ calls = 2) => img_buff = img_in

\* The second application is over; the first one had changed the buffer, and
\* had left a transparent pixel black that lies next to a filled one.
IdempotentWitness ==
    /\ pc = "done"
    /\ calls = 2
    /\ img_in # first_in
    /\ img_buff = first_out
    /\ \E i \in RectPixels :
           /\ Alpha(img_in, i) = 0
           /\ Colour(img_in, i) = Black
           /\ Colour(first_in, i) # Black
           /\ \E d \in 1..4 : /\ Alpha(img_in, Nb(i, d)) = 0
                               /\ Colour(img_in, Nb(i, d)) = Colour(OpaqueRedBuffer, 0)

\* ------------------------------------------------------------------ C21
\* The two images of a skin, wherever a skin is kept.
KeptSkins ==
    {uploads[u].skins_to_upload[n] :
        <<u, n>> \in {p \in Users \X {"a", "b"} :
                         /\ p[1] \in DOMAIN uploads
                         /\ p[2] \in DOMAIN uploads[p[1]].skins_to_upload}}
    \cup
    {taken[u][n] : <<u, n>> \in {p \in Users \X {"a", "b"} : p[2] \in DOMAIN taken[p[1]]}}

\* C21: file_256x128 of a skin is empty or 256*128*4 bytes long and
\* file_512x256 is empty or 512*256*4 bytes long; dilate_image is called only
\* on a buffer that is not empty, with the width and height of its image and
\* 4 bytes per pixel, so that the buffer is w*h*bpp bytes long.
BuffersFit ==
    /\ \A skin \in KeptSkins :
           /\ skin.file_256x128 \in {0, 256 * 128 * 4}
           /\ skin.file_512x256 \in {0, 512 * 256 * 4}
    /\ \A call \in dilate_calls :
           /\ call.len # 0
           /\ call.len = call.w * call.h * call.bpp
           /\ <<call.w, call.h, call.bpp>> \in {<<256, 128, 4>>, <<512, 256, 4>>}

\* A skin whose message had both images and one of another size has been
\* uploaded: dilate_image was called for the small and for the large image.
BuffersFitWitness ==
    \E small \in dilate_calls, large \in dilate_calls :
        /\ small.name = "b" /\ small.w = 256
        /\ large.name = "b" /\ large.w = 512
        /\ small.user = large.user
        /\ \E u \in DOMAIN uploads :
               <<"no valid skin", 3>> \in uploads[u].errors

\* ------------------------------------------------------------------ C22
\* C22: while upload_finish waits for the upload lock and while it dilates
\* and posts, it does not hold the write lock of the session data; while it
\* dilates and posts it holds the upload lock.
LockDroppedBeforeUpload ==
    \A u \in Users :
        /\ fin[u] \in {"starting", "uploading"} => data_lock # <<"finish", u>>
        /\ fin[u] = "uploading" => upload_lock = <<"finish", u>>

\* One user's upload is running while another handler has the write lock of
\* the session data.
LockDroppedBeforeUploadWitness ==
    \E u \in Users, v \in Users :
        /\ u # v
        /\ fin[u] = "uploading"
        /\ taken[u] # <<>>
        /\ data_lock = <<"finish", v>>

\* ------------------------------------------------------------------ C24
\* C24: the uploads map never holds more than one session, however two
\* /upload commands are interleaved.
OneSessionAtATime == Cardinality(DOMAIN uploads) <= 1

\* ------------------------------------------------------------------ C25
\* C25: a session starts as Collecting; its state changes only from
\* Collecting to Uploading or from Collecting to Cancelled, and an Uploading
\* or Cancelled session keeps its state until it is removed.
StateMoves ==
    [][\A u \in Users :
          /\ (u \notin DOMAIN uploads /\ u \in DOMAIN uploads')
                 => uploads'[u].state = "Collecting"
          /\ (u \in DOMAIN uploads /\ u \in DOMAIN uploads')
                 => \/ uploads'[u].state = uploads[u].state
                    \/ /\ uploads[u].state = "Collecting"
                       /\ uploads'[u].state \in {"Uploading", "Cancelled"}]_vars

\* A cancelled session is still there after /upload_finish was turned away
\* and after another reaction of its user.
StateMovesWitness ==
    \E u \in DOMAIN uploads :
        /\ uploads[u].state = "Cancelled"
        /\ "An upload is already in progress" \in told[u]
        /\ uploads[u].skins_try_upload # <<>>

\* ------------------------------------------------------------------ C26
\* C26: under fair scheduling every session that is in the uploads map is
\* removed from it in the end, by the loop that was notified of an accepted
\* /upload_finish or /upload_cancel or else by the timeout.
EventuallyRemoved ==
    \A u \in Users : (u \in DOMAIN uploads) ~> (u \notin DOMAIN uploads)

\* Two sessions are gone: one was cancelled and its loop was notified, the
\* other one timed out.
EventuallyRemovedWitness ==
    \E u \in Users, v \in Users :
        /\ DOMAIN uploads = {}
        /\ task[u] = "ended" /\ "Skin upload cancelled" \in told[u]
        /\ "Upload timed out" \notin told[u]
        /\ task[v] = "ended" /\ "Upload timed out" \in told[v]

\* ------------------------------------------------------------------ C27
\* C27: a session whose response was replaced by "Upload timed out" posts no
\* skin, however the timeout branch and upload_finish are interleaved.
TimedOutUploadsNothing ==
    \A u \in Users :
        "Upload timed out" \in told[u] => \A n \in {"a", "b"} : <<u, n>> \notin posted

\* ------------------------------------------------------------------ C28
\* C28: once /upload_cancel of a user was accepted, no skin of that session
\* is cloned for upload, dilated or posted.
CancelledUploadsNothing ==
    \A u \in Users :
        "Skin upload cancelled" \in told[u]
            => /\ taken[u] = <<>>
               /\ fin[u] \notin {"starting", "uploading"}
               /\ \A call \in dilate_calls : call.user # u
               /\ \A n \in {"a", "b"} : <<u, n>> \notin posted

\* A session that holds a skin was cancelled, and /upload_finish was turned
\* away afterwards.
CancelledUploadsNothingWitness ==
    \E u \in DOMAIN uploads :
        /\ "Skin upload cancelled" \in told[u]
        /\ "An upload is already in progress" \in told[u]
        /\ uploads[u].skins_to_upload # <<>>
        /\ fin[u] = "idle"

\* ------------------------------------------------------------------ C29
\* C29: when upload_finish clones the skins, every message the user has
\* reacted to is processed: skins_try_upload holds no entry.
NothingMissed == \A u \in Users : missed[u] = {}

\* ------------------------------------------------------------------ C30
\* Message m has attachments and all of them are 512x256 images.
OnlyLarge(m) ==
    /\ Attachments(m) # <<>>
    /\ \A k \in DOMAIN Attachments(m) : Attachments(m)[k] = <<512, 256>>

\* After the step, with the lock of the session data free, every skin of a
\* session and every cloned skin has a 256x128 image.
SmallImageKept ==
    data_lock' = Free =>
        /\ \A u \in DOMAIN uploads' : \A n \in DOMAIN uploads'[u].skins_to_upload :
               uploads'[u].skins_to_upload[n].file_256x128 # 0
        /\ \A u \in Users : \A n \in DOMAIN taken'[u] :
               taken'[u][n].file_256x128 # 0

\* The step ends the iteration of the loop of user u for a fetched message
\* that has 512x256 images only.
EndsOnlyLarge(u) ==
    /\ task[u] = "checking"
    /\ task'[u] = "processing"
    /\ OnlyLarge(Head(drained[u])[1])

\* The skin of the message is gone and the error is there.
LeavesNoEntry(u) ==
    /\ SkinName(Head(drained[u])[1]) \notin DOMAIN uploads'[u].skins_to_upload
    /\ <<"had no 256x128 skin", Head(drained[u])[1]>> \in uploads'[u].errors

\* The skin of the message is there with both images and no error is added.
LeavesMergedEntry(u) ==
    /\ SkinName(Head(drained[u])[1]) \in DOMAIN uploads'[u].skins_to_upload
    /\ uploads'[u].skins_to_upload[SkinName(Head(drained[u])[1])].file_256x128 # 0
    /\ uploads'[u].skins_to_upload[SkinName(Head(drained[u])[1])].file_512x256 # 0
    /\ uploads'[u].errors = uploads[u].errors

UploadsSerialized ==
    /\ Cardinality({u \in Users : fin[u] = "uploading"}) <= 1
    /\ \A u \in Users : fin[u] = "uploading" <=> upload_lock = <<"finish", u>>

\* Two sessions were finished; one upload_finish dilates and posts while
\* the other one, its clone taken, waits for the upload lock.
UploadsSerializedWitness ==
    \E u \in Users, v \in Users :
        /\ fin[u] = "uploading"
        /\ fin[v] = "starting"
        /\ taken[u] # <<>>
        /\ upload_lock = <<"finish", u>>

\* ------------------------------------------------------------------ C32
\* C32: a session is in the uploads map only for a user who holds the role,
\* and only such a user's skins are dilated or posted; the state of a
\* session changes only by upload_finish or upload_cancel of its own user:
\* to Uploading in a step of that user's upload_finish, to Cancelled in a
\* step that answers that user "Skin upload cancelled".
OnlyOwnSession ==
    [][/\ DOMAIN uploads' \subseteq Users
       /\ \A call \in dilate_calls' : call.user \in Users
       /\ \A p \in posted' : p[1] \in Users
       /\ \A v \in DOMAIN uploads \cap DOMAIN uploads' :
              uploads'[v].state # uploads[v].state =>
                  \/ /\ uploads'[v].state = "Uploading"
                     /\ fin[v] = "locked" /\ fin'[v] = "starting"
                     /\ \A u \in Everyone \ {v} : fin'[u] = fin[u]
                  \/ /\ uploads'[v].state = "Cancelled"
                     /\ "Skin upload cancelled" \in told'[v]
                     /\ "Skin upload cancelled" \notin told[v]
                     /\ \A u \in Everyone \ {v} : told'[u] = told[u]]_vars

\* A user without the role was refused /upload and was turned away at the
\* button of upload_finish or upload_cancel, while the session of a holder
\* of the role is there and was finished by its own user.
OnlyOwnSessionWitness ==
    \E g \in Everyone \ Users, u \in DOMAIN uploads :
        /\ "You don't have the required permissions" \in told[g]
        /\ "You never started an upload" \in told[g]
        /\ uploads[u].state = "Uploading"
        /\ fin[u] = "starting"

\* ------------------------------------------------------------------ C33
\* The step is reaction_remove of user u on message m; after it the message
\* is not on skins_try_upload, the user has no reaction on it, and no skin
\* of its name is in skins_to_upload.
RemovalWithdraws(u, m) ==
    (<<u, m>> \in reacted /\ <<u, m>> \notin reacted' /\ u \in DOMAIN uploads')
        => /\ m \notin Keys(uploads'[u].skins_try_upload)
           /\ SkinName(m) \notin DOMAIN uploads'[u].skins_to_upload

\* The step is the one of upload_finish of user u that clones the skins;
\* every cloned skin is of a message the user has a reaction on.
ClonesReactedOnly(u) ==
    (fin[u] = "locked" /\ fin'[u] = "starting")
        => \A n \in DOMAIN taken'[u] :
               \E m \in Messages : <<u, m>> \in reacted /\ SkinName(m) = n

\* C33: after reaction_remove of the user of a session on a message, the
\* message is in neither skins_try_upload nor the reactions of the user and
\* the skin of its name is not in skins_to_upload, and a later upload_finish
\* does not upload a skin whose reaction was removed.
WithdrawnNotUploaded ==
    [][\A u \in Users :
          /\ \A m \in Messages : RemovalWithdraws(u, m)
          /\ ClonesReactedOnly(u)]_vars

\* ------------------------------------------------------------------ C34
\* The step is the one of the loop of user u that takes a fetched message
\* while a skin of its name is there for the other database.
TakesOtherDatabase(u) ==
    /\ task[u] = "processing"
    /\ task'[u] = "checking"
    /\ SkinName(Head(drained[u])[1]) \in DOMAIN uploads[u].skins_to_upload
    /\ uploads[u].skins_to_upload[SkinName(Head(drained[u])[1])].database
           # Head(drained[u])[2]

\* The skin the step found was made from the message the step takes.
OfSameMessage(u) ==
    uploads[u].skins_to_upload[SkinName(Head(drained[u])[1])].original_msg_id
        = Head(drained[u])[1]

\* The step adds the error and changes no skin.
KeepsEntry(u) ==
    /\ <<"you changed the database upload type", Head(drained[u])[1]>>
           \in uploads'[u].errors
    /\ uploads'[u].skins_to_upload = uploads[u].skins_to_upload

\* After the step the skin is one of the message and of its database.
ReplacesEntry(u) ==
    /\ SkinName(Head(drained[u])[1]) \in DOMAIN uploads'[u].skins_to_upload
    /\ uploads'[u].skins_to_upload[SkinName(Head(drained[u])[1])].database
           = Head(drained[u])[2]
    /\ uploads'[u].skins_to_upload[SkinName(Head(drained[u])[1])].original_msg_id
           = Head(drained[u])[1]

\* C34: processing a message whose skin name is in skins_to_upload for the
\* other database adds the error "you changed the database upload type" and
\* leaves the entry unchanged when the entry is of another message, and
\* replaces the entry by one of the new database when the reaction on the
\* entry's own message was switched.
OneDatabasePerSkin ==
    [][\A u \in Users :
          TakesOtherDatabase(u) =>
              IF OfSameMessage(u) THEN ReplacesEntry(u) ELSE KeepsEntry(u)]_vars

====
